---- MODULE Spec2Model ----
(***************************************************************************)
(* The binary module writer of the webassembly package: the resumable      *)
(* Writer state machine (src/node_modules/webassembly/src/Writer.js), the  *)
(* buffer queue it commits to and the Body Writer it delegates function    *)
(* bodies to.                                                              *)
(***************************************************************************)
EXTENDS Integers, Sequences, FiniteSets, TLC

VARIABLES assembly, writer, functionDefinition, call

vars == <<assembly, writer, functionDefinition, call>>

(***************************************************************************)
(* Bounds of the model.                                                    *)
(***************************************************************************)
\* Longest global-variable pool drawn by Init.
MaxGlobals == 3
\* The destination asks for 1..MaxRead bytes, or for BigRead bytes.
MaxRead == 2
\* A read size that no single run of steps can fill.
BigRead == 16
\* Room the buffer queue may hold before the destination stops asking.
MaxRoom == 40
\* Exceptions that may leave _read before the destination stops asking.
MaxUncaught == 2

(***************************************************************************)
(* Writer.State                                                            *)
(***************************************************************************)
HEADER == 0
CONSTANTS_COUNT == 1
CONSTANTS_I32 == 2
CONSTANTS_F32 == 3
CONSTANTS_F64 == 4
SIGNATURES_COUNT == 5
SIGNATURES == 6
FUNCTION_IMPORTS_COUNT == 7
FUNCTION_IMPORTS == 8
GLOBAL_VARIABLES_COUNT == 9
GLOBAL_VARIABLES == 10
FUNCTION_DECLARATIONS_COUNT == 11
FUNCTION_DECLARATIONS == 12
FUNCTION_POINTER_TABLES_COUNT == 13
FUNCTION_POINTER_TABLES == 14
FUNCTION_POINTER_ELEMENTS == 15
FUNCTION_DEFINITIONS == 16
EXPORT == 17
END == 18
ERROR == 19

(***************************************************************************)
(* types.js (not part of the sources at hand): numeric codes of the wire   *)
(* format.                                                                 *)
(***************************************************************************)
MagicNumber == 1836278135
TypeI32 == 0
TypeF32 == 1
TypeF64 == 2
TypeVoid == 3
VarTypeI32 == 1
VarTypeF32 == 2
VarTypeF64 == 4
VarTypeWithImm_OnlyI32 == 0
OpWithImm_ImmMax == 31
ExportFormat_Default == 0
ExportFormat_Record == 1
\* An opcode no behavior is registered for.
UnknownOpcode == 255

\* this.astWriter === null
NULL == -1

(***************************************************************************)
(* Primitive encodings of the buffer queue (util.js, not part of the       *)
(* sources at hand).                                                       *)
(***************************************************************************)
RECURSIVE Varint(_)
Varint(n) ==
    IF n < 128 THEN <<n>> ELSE <<(n % 128) + 128>> \o Varint(n \div 128)

UInt8(n) == <<n % 256>>

UInt32LE(n) ==
    << n % 256, (n \div 256) % 256, (n \div 65536) % 256, (n \div 16777216) % 256 >>

\* A float constant is held as its IEEE-754 bit pattern.
FloatLE(bits) == UInt32LE(bits)

\* A double constant is held as the two 32-bit words <<low, high>> of its bit pattern.
DoubleLE(bits) == UInt32LE(bits[1]) \o UInt32LE(bits[2])

\* A name is a sequence of character codes; it is written NUL-terminated.
CString(name) == name \o <<0>>

packWithImm(op, imm) == 128 + op * 32 + imm

(***************************************************************************)
(* util.BufferQueue (not part of the sources at hand): room is the size of *)
(* the destination buffers pushed and not yet released, staged the writes  *)
(* since the last commit, committed the bytes committed and not yet handed *)
(* to the destination, offset the running output offset.                   *)
(***************************************************************************)
NewBufferQueue == [room |-> 0, committed |-> <<>>, staged |-> <<>>, offset |-> 0]

BQpush(q, size) == [q EXCEPT !.room = @ + size]

BQwrite(q, bytes) == [q EXCEPT !.staged = @ \o bytes]

\* commit() raises E_MORE when the staged batch exceeds the room left.
BQhasRoom(q) == Len(q.committed) + Len(q.staged) <= q.room

BQcommit(q) ==
    [q EXCEPT !.committed = @ \o q.staged, !.staged = <<>>,
              !.offset = @ + Len(q.staged)]

BQreset(q) == [q EXCEPT !.staged = <<>>]

BQtoBuffer(q) == q.committed

\* clear() releases the buffers handed over; clear(true) also drops pending writes.
BQclear(q, all) ==
    [q EXCEPT !.room = 0, !.committed = <<>>,
              !.staged = IF all THEN <<>> ELSE @]

(***************************************************************************)
(* Results of a step: the writer after it, the condition it raised         *)
(* ("none", "E_MORE" or "Error") and its return value.                     *)
(***************************************************************************)
Ret(w, thrown, value) == [w |-> w, thrown |-> thrown, value |-> value]

\* bufferQueue.write...(bytes).commit() on the writer's queue.
CommitQueue(w, q) ==
    IF BQhasRoom(q)
    THEN [ok |-> TRUE, w |-> [w EXCEPT !.bufferQueue = BQcommit(q)]]
    ELSE [ok |-> FALSE, w |-> [w EXCEPT !.bufferQueue = q]]

Commit(w, bytes) ==
    CHOOSE result \in
        {CommitQueue(v, BQwrite(v.bufferQueue, b)) : v \in {w}, b \in {bytes}} : TRUE

\* The import name of a zero-initialized global variable: null.
NoName == <<NULL>>

\* bufferQueue.writeCString(value).commit() on the writer's queue, with the
\* condition it raises.  (util.BufferQueue is not part of the sources at
\* hand: writeCString is taken to raise on a value that is no string, as
\* null is, before anything is written.)
CommitCString(w, value) ==
    IF value = NoName
    THEN [w |-> w, thrown |-> "Error"]
    ELSE LET c == Commit(w, CString(value))
         IN  [w |-> c.w, thrown |-> IF c.ok THEN "none" ELSE "E_MORE"]

\* while (this.sequence < size) { write entry; commit(); ++this.sequence; }
RECURSIVE WriteEntries(_, _)
WriteEntry(w, entries) ==
    IF w.sequence < Len(entries)
    THEN LET c == Commit(w, entries[w.sequence + 1])
         IN  IF c.ok
             THEN WriteEntries([c.w EXCEPT !.sequence = @ + 1], entries)
             ELSE Ret(c.w, "E_MORE", FALSE)
    ELSE Ret(w, "none", FALSE)

\* (v and e are the writer and the entries as the iteration finds them.)
WriteEntries(w, entries) ==
    CHOOSE result \in {WriteEntry(v, e) : v \in {w}, e \in {entries}} : TRUE

RECURSIVE Concat(_)
Concat(ss) == IF ss = <<>> THEN <<>> ELSE Head(ss) \o Concat(Tail(ss))

(***************************************************************************)
(* The steps of Writer.prototype._process, one per state.                  *)
(***************************************************************************)
\* Variant: the state is advanced before the commit.
_writeHeader_stateFirst(a, w) ==
    LET c == Commit([w EXCEPT !.state = CONSTANTS_COUNT],
                    UInt32LE(MagicNumber) \o UInt32LE(a.precomputedSize))
    IN  IF c.ok THEN Ret(c.w, "none", FALSE) ELSE Ret(c.w, "E_MORE", FALSE)

_writeHeader(a, w) ==
    LET c == Commit(w, UInt32LE(MagicNumber) \o UInt32LE(a.precomputedSize))
    IN  IF c.ok
        THEN Ret([c.w EXCEPT !.state = CONSTANTS_COUNT], "none", FALSE)
        ELSE Ret(c.w, "E_MORE", FALSE)

_writeConstantsCount(a, w) ==
    LET c == Commit(w, Varint(Len(a.constantsI32)) \o Varint(Len(a.constantsF32))
                       \o Varint(Len(a.constantsF64)))
    IN  IF c.ok
        THEN Ret([c.w EXCEPT !.state = CONSTANTS_I32, !.sequence = 0], "none", FALSE)
        ELSE Ret(c.w, "E_MORE", FALSE)

ConstantI32Entries(a) == [i \in 1..Len(a.constantsI32) |-> Varint(a.constantsI32[i])]

_writeConstantsI32(a, w) ==
    LET r == WriteEntries(w, ConstantI32Entries(a))
    IN  IF r.thrown = "none"
        THEN Ret([r.w EXCEPT !.state = CONSTANTS_F32, !.sequence = 0], "none", FALSE)
        ELSE r

ConstantF32Entries(a) == [i \in 1..Len(a.constantsF32) |-> FloatLE(a.constantsF32[i])]

_writeConstantsF32(a, w) ==
    LET r == WriteEntries(w, ConstantF32Entries(a))
    IN  IF r.thrown = "none"
        THEN Ret([r.w EXCEPT !.state = CONSTANTS_F64, !.sequence = 0], "none", FALSE)
        ELSE r

ConstantF64Entries(a) == [i \in 1..Len(a.constantsF64) |-> DoubleLE(a.constantsF64[i])]

\* Variant: the signatures count is skipped.
_writeConstantsF64_skip(a, w) ==
    LET r == WriteEntries(w, ConstantF64Entries(a))
    IN  IF r.thrown = "none"
        THEN Ret([r.w EXCEPT !.state = SIGNATURES, !.sequence = 0], "none", FALSE)
        ELSE r

_writeConstantsF64(a, w) ==
    LET r == WriteEntries(w, ConstantF64Entries(a))
    IN  IF r.thrown = "none"
        THEN Ret([r.w EXCEPT !.state = SIGNATURES_COUNT], "none", FALSE)
        ELSE r

_writeSignaturesCount(a, w) ==
    LET c == Commit(w, Varint(Len(a.signatures)))
    IN  IF c.ok
        THEN Ret([c.w EXCEPT !.state = SIGNATURES, !.sequence = 0], "none", FALSE)
        ELSE Ret(c.w, "E_MORE", FALSE)

\* Variant: the argument count is written before the return type.
SignatureBytes_countFirst(s) ==
    Varint(Len(s.argumentTypes)) \o UInt8(s.returnType)
    \o Concat([i \in 1..Len(s.argumentTypes) |-> UInt8(s.argumentTypes[i])])

SignatureBytes(s) ==
    UInt8(s.returnType) \o Varint(Len(s.argumentTypes))
    \o Concat([i \in 1..Len(s.argumentTypes) |-> UInt8(s.argumentTypes[i])])

SignatureEntries(a) == [i \in 1..Len(a.signatures) |-> SignatureBytes(a.signatures[i])]

_writeSignatures(a, w) ==
    LET r == WriteEntries(w, SignatureEntries(a))
    IN  IF r.thrown = "none"
        THEN Ret([r.w EXCEPT !.state = FUNCTION_IMPORTS_COUNT], "none", FALSE)
        ELSE r

RECURSIVE SumLen(_)
SumLen(ss) == IF ss = <<>> THEN 0 ELSE Len(Head(ss)) + SumLen(Tail(ss))

\* Assembly.getFunctionImportSignaturePoolSize: all signature references of all imports.
getFunctionImportSignaturePoolSize(a) ==
    SumLen([i \in 1..Len(a.functionImports) |-> a.functionImports[i].signatures])

_writeFunctionImportsCount(a, w) ==
    LET c == Commit(w, Varint(Len(a.functionImports))
                       \o Varint(getFunctionImportSignaturePoolSize(a)))
    IN  IF c.ok
        THEN Ret([c.w EXCEPT !.state = FUNCTION_IMPORTS, !.sequence = 0], "none", FALSE)
        ELSE Ret(c.w, "E_MORE", FALSE)

FunctionImportBytes(imprt) ==
    CString(imprt.importName) \o Varint(Len(imprt.signatures))
    \o Concat([i \in 1..Len(imprt.signatures) |-> Varint(imprt.signatures[i])])

FunctionImportEntries(a) ==
    [i \in 1..Len(a.functionImports) |-> FunctionImportBytes(a.functionImports[i])]

_writeFunctionImports(a, w) ==
    LET r == WriteEntries(w, FunctionImportEntries(a))
    IN  IF r.thrown = "none"
        THEN Ret([r.w EXCEPT !.state = GLOBAL_VARIABLES_COUNT], "none", FALSE)
        ELSE r

\* while (current < vars.length && vars[current].type === type) current++;
RECURSIVE ScanType(_, _, _)
ScanTypeFrom(vars_, current, type) ==
    IF current < Len(vars_) /\ vars_[current + 1].type = type
    THEN ScanType(vars_, current + 1, type)
    ELSE current

ScanType(vars_, current, type) ==
    CHOOSE result \in {ScanTypeFrom(vars_, c, type) : c \in {current}} : TRUE

\* The types the six loops of the scan look for, in their order.
ScanTypes == <<TypeI32, TypeF32, TypeF64, TypeI32, TypeF32, TypeF64>>

\* The values of current after each of the first k loops.
RECURSIVE ScanLoops(_, _)
ScanLoopsAfter(vars_, k, before) ==
    Append(before,
           ScanType(vars_, IF k = 1 THEN 0 ELSE before[k - 1], ScanTypes[k]))

ScanLoops(vars_, k) ==
    IF k = 0
    THEN <<>>
    ELSE CHOOSE result \in
             {ScanLoopsAfter(vars_, k, b) : b \in {ScanLoops(vars_, k - 1)}} : TRUE

\* The six counts of the scan, the index this.sequence is set to halfway, and
\* the index at which the scan stops.
ScanResult(c) ==
    [nI32zero |-> c[1], nF32zero |-> c[2] - c[1], nF64zero |-> c[3] - c[2],
     sequence |-> c[3],
     nI32import |-> c[4] - c[3], nF32import |-> c[5] - c[4],
     nF64import |-> c[6] - c[5],
     current |-> c[6]]

GlobalVariablesScan(a) ==
    CHOOSE result \in {ScanResult(c) : c \in {ScanLoops(a.globalVariables, 6)}} : TRUE

\* Variant: the counts are committed as they are written.
_writeGlobalVariablesCount_earlyCommit(a, w) ==
    LET s == GlobalVariablesScan(a)
        c5 == Commit([w EXCEPT !.sequence = s.sequence],
                     Varint(s.nI32zero) \o Varint(s.nF32zero) \o Varint(s.nF64zero)
                     \o Varint(s.nI32import) \o Varint(s.nF32import))
    IN  IF ~c5.ok
        THEN Ret(c5.w, "E_MORE", FALSE)
        ELSE IF s.current # Len(a.globalVariables)
        THEN Ret(c5.w, "Error", FALSE)
        ELSE LET c == Commit(c5.w, Varint(s.nF64import))
             IN  IF c.ok
                 THEN Ret([c.w EXCEPT !.state = GLOBAL_VARIABLES], "none", FALSE)
                 ELSE Ret(c.w, "E_MORE", FALSE)

_writeGlobalVariablesCount(a, w) ==
    LET s == GlobalVariablesScan(a)
        q5 == BQwrite(w.bufferQueue,
                      Varint(s.nI32zero) \o Varint(s.nF32zero) \o Varint(s.nF64zero)
                      \o Varint(s.nI32import) \o Varint(s.nF32import))
        w5 == [w EXCEPT !.bufferQueue = q5, !.sequence = s.sequence]
    IN  IF s.current # Len(a.globalVariables)
        THEN Ret(w5, "Error", FALSE)
        ELSE LET c == Commit(w5, Varint(s.nF64import))
             IN  IF c.ok
                 THEN Ret([c.w EXCEPT !.state = GLOBAL_VARIABLES], "none", FALSE)
                 ELSE Ret(c.w, "E_MORE", FALSE)

\* while (this.sequence < size) { writeCString(variable.importName).commit();
\* ++this.sequence; }, for every variable from sequence on, imported or not.
RECURSIVE WriteGlobalVariableNames(_, _)
WriteGlobalVariableName(a, w) ==
    IF w.sequence < Len(a.globalVariables)
    THEN LET variable == a.globalVariables[w.sequence + 1]
             c == CommitCString(w, variable.importName)
         IN  IF c.thrown = "none"
             THEN WriteGlobalVariableNames(a, [c.w EXCEPT !.sequence = @ + 1])
             ELSE Ret(c.w, c.thrown, FALSE)
    ELSE Ret(w, "none", FALSE)

WriteGlobalVariableNames(a, w) ==
    CHOOSE result \in {WriteGlobalVariableName(a, v) : v \in {w}} : TRUE

_writeGlobalVariables(a, w) ==
    LET r == WriteGlobalVariableNames(a, w)
    IN  IF r.thrown = "none"
        THEN Ret([r.w EXCEPT !.state = FUNCTION_DECLARATIONS_COUNT], "none", FALSE)
        ELSE r

_writeFunctionDeclarationsCount(a, w) ==
    LET c == Commit(w, Varint(Len(a.functionDeclarations)))
    IN  IF c.ok
        THEN Ret([c.w EXCEPT !.state = FUNCTION_DECLARATIONS, !.sequence = 0],
                 "none", FALSE)
        ELSE Ret(c.w, "E_MORE", FALSE)

FunctionDeclarationEntries(a) ==
    [i \in 1..Len(a.functionDeclarations) |-> Varint(a.functionDeclarations[i].signature)]

_writeFunctionDeclarations(a, w) ==
    LET r == WriteEntries(w, FunctionDeclarationEntries(a))
    IN  IF r.thrown = "none"
        THEN Ret([r.w EXCEPT !.state = FUNCTION_POINTER_TABLES_COUNT], "none", FALSE)
        ELSE r

_writeFunctionPointerTablesCount(a, w) ==
    LET c == Commit(w, Varint(Len(a.functionPointerTables)))
    IN  IF c.ok
        THEN Ret([c.w EXCEPT !.state = FUNCTION_POINTER_TABLES, !.sequence = 0],
                 "none", FALSE)
        ELSE Ret(c.w, "E_MORE", FALSE)

FunctionPointerTableHeader(table) ==
    Varint(table.signature) \o Varint(Len(table.elements))

\* Variant: the element index is not reset when a table's header is written.
_writeFunctionPointerTables_keepSubSequence(a, w) ==
    IF w.sequence < Len(a.functionPointerTables)
    THEN LET table == a.functionPointerTables[w.sequence + 1]
             c == Commit(w, FunctionPointerTableHeader(table))
         IN  IF c.ok
             THEN Ret([c.w EXCEPT !.state = FUNCTION_POINTER_ELEMENTS], "none", FALSE)
             ELSE Ret(c.w, "E_MORE", FALSE)
    ELSE Ret([w EXCEPT !.state = FUNCTION_DEFINITIONS, !.sequence = 0], "none", FALSE)

_writeFunctionPointerTables(a, w) ==
    IF w.sequence < Len(a.functionPointerTables)
    THEN LET table == a.functionPointerTables[w.sequence + 1]
             c == Commit(w, FunctionPointerTableHeader(table))
         IN  IF c.ok
             THEN Ret([c.w EXCEPT !.state = FUNCTION_POINTER_ELEMENTS,
                                  !.subSequence = 0], "none", FALSE)
             ELSE Ret(c.w, "E_MORE", FALSE)
    ELSE Ret([w EXCEPT !.state = FUNCTION_DEFINITIONS, !.sequence = 0], "none", FALSE)

\* while (this.subSequence < table.elements.length) { ...; ++this.subSequence; }
RECURSIVE WriteElements(_, _)
WriteElement(w, elements) ==
    IF w.subSequence < Len(elements)
    THEN LET c == Commit(w, Varint(elements[w.subSequence + 1]))
         IN  IF c.ok
             THEN WriteElements([c.w EXCEPT !.subSequence = @ + 1], elements)
             ELSE Ret(c.w, "E_MORE", FALSE)
    ELSE Ret(w, "none", FALSE)

WriteElements(w, elements) ==
    CHOOSE result \in {WriteElement(v, e) : v \in {w}, e \in {elements}} : TRUE

_writeFunctionPointerElements(a, w) ==
    LET table == a.functionPointerTables[w.sequence + 1]
        r == WriteElements(w, table.elements)
    IN  IF r.thrown = "none"
        THEN Ret([r.w EXCEPT !.state = FUNCTION_POINTER_TABLES, !.sequence = @ + 1],
                 "none", FALSE)
        ELSE r

\* Variant: the arguments are counted with the locals.
CountVars_withArguments(variables, type) ==
    Cardinality({i \in 1..Len(variables) : variables[i].type = type})

\* The declared locals of one type: arguments are skipped.
CountVars(variables, type) ==
    Cardinality({i \in 1..Len(variables) :
                    ~variables[i].isArgument /\ variables[i].type = type})

\* default: throw Error("illegal variable type: " + variable.type)
HasIllegalVariable(variables) ==
    \E i \in 1..Len(variables) :
        ~variables[i].isArgument /\ variables[i].type \notin {TypeI32, TypeF32, TypeF64}

\* The local-count header of a function definition.
VariablesHeader(variables) ==
    LET nI32Vars == CountVars(variables, TypeI32)
        nF32Vars == CountVars(variables, TypeF32)
        nF64Vars == CountVars(variables, TypeF64)
    IN  IF nF32Vars = 0 /\ nF64Vars = 0 /\ nI32Vars <= OpWithImm_ImmMax
        THEN UInt8(packWithImm(VarTypeWithImm_OnlyI32, nI32Vars))
        ELSE UInt8((IF nI32Vars > 0 THEN VarTypeI32 ELSE 0)
                   + (IF nF32Vars > 0 THEN VarTypeF32 ELSE 0)
                   + (IF nF64Vars > 0 THEN VarTypeF64 ELSE 0))
             \o (IF nI32Vars > 0 THEN Varint(nI32Vars) ELSE <<>>)
             \o (IF nF32Vars > 0 THEN Varint(nF32Vars) ELSE <<>>)
             \o (IF nF64Vars > 0 THEN Varint(nF64Vars) ELSE <<>>)

\* this.astWriter.on("end", ...), .on("data", ...), .on("error", ...)
AstWriterListeners == {"end", "data", "error"}

\* Returns true once a Body Writer (position 0 of the definition's nodes) is
\* created, given its three listeners and resumed.
_writeFunctionDefinitions(a, w) ==
    IF w.sequence < Len(a.functionDeclarations)
    THEN LET definition == a.functionDefinitions[w.sequence + 1]
         IN  IF HasIllegalVariable(definition.variables)
             THEN Ret(w, "Error", FALSE)
             ELSE LET c == Commit(w, VariablesHeader(definition.variables))
                  IN  IF c.ok
                      THEN Ret([c.w EXCEPT !.astWriter = 0,
                                           !.astListeners = AstWriterListeners],
                               "none", TRUE)
                      ELSE Ret(c.w, "E_MORE", FALSE)
    ELSE Ret([w EXCEPT !.state = EXPORT], "none", FALSE)

\* Object.keys(exprt.functions).  The record holds its entries in the order
\* in which the names were inserted; the keys of an object come out with the
\* names that are array indices ("0", "1", "10", ...) first, in ascending
\* numeric order, and then the other names in insertion order.  An array
\* index is the canonical decimal form of an integer from 0 to 2^32 - 2;
\* the numbers are compared as digit strings (shorter first, then digit by
\* digit), since the greatest of them exceed the integers at hand.
MaxArrayIndex == <<52, 50, 57, 52, 57, 54, 55, 50, 57, 52>>

RECURSIVE DigitsLeq(_, _)
DigitsLeq(name, other) ==
    IF name = <<>> THEN TRUE
    ELSE IF name[1] # other[1] THEN name[1] < other[1]
    ELSE DigitsLeq(Tail(name), Tail(other))

ArrayIndexLeq(name, other) ==
    \/ Len(name) < Len(other)
    \/ Len(name) = Len(other) /\ DigitsLeq(name, other)

IsArrayIndex(name) ==
    /\ Len(name) \in 1..Len(MaxArrayIndex)
    /\ \A i \in 1..Len(name) : name[i] \in 48..57
    /\ (Len(name) > 1 => name[1] # 48)
    /\ ArrayIndexLeq(name, MaxArrayIndex)

RECURSIVE ArrayIndexKeys(_, _)
ArrayIndexKeys(functions, positions) ==
    IF positions = {} THEN <<>>
    ELSE LET least == CHOOSE i \in positions : \A j \in positions :
                          ArrayIndexLeq(functions[i].name, functions[j].name)
         IN  <<functions[least]>> \o ArrayIndexKeys(functions, positions \ {least})

ObjectKeys(functions) ==
    ArrayIndexKeys(functions,
                   {i \in 1..Len(functions) : IsArrayIndex(functions[i].name)})
    \o SelectSeq(functions, LAMBDA f : ~IsArrayIndex(f.name))

\* The record's entries in key order: name, then function index.
RecordExportBytes(functions) ==
    Concat([i \in 1..Len(ObjectKeys(functions)) |->
               CString(ObjectKeys(functions)[i].name)
               \o Varint(ObjectKeys(functions)[i].index)])

_writeExport(a, w) ==
    LET exprt == a.export
    IN  IF exprt.kind = "DefaultExport"
        THEN LET c == Commit(w, UInt8(ExportFormat_Default) \o Varint(exprt.function))
             IN  IF c.ok
                 THEN Ret([c.w EXCEPT !.state = END], "none", FALSE)
                 ELSE Ret(c.w, "E_MORE", FALSE)
        ELSE IF exprt.kind = "RecordExport"
        THEN LET c == Commit(w, UInt8(ExportFormat_Record)
                                \o Varint(Len(ObjectKeys(exprt.functions)))
                                \o RecordExportBytes(exprt.functions))
             IN  IF c.ok
                 THEN Ret([c.w EXCEPT !.state = END], "none", FALSE)
                 ELSE Ret(c.w, "E_MORE", FALSE)
        ELSE Ret(w, "Error", FALSE)

(***************************************************************************)
(* Writer.prototype._process and Writer.prototype._read.  Besides the      *)
(* fields of the Writer object the record holds what the stream and its    *)
(* listeners observe: pushed (the bytes given to push), ended (the number  *)
(* of push(null) calls), errorListener (whether an "error" listener is     *)
(* attached to the writer), errorEvents (the number of "error" events      *)
(* delivered to it), uncaught (the number of exceptions that left _read),  *)
(* astListeners (the events of the Body Writer on which the writer has a   *)
(* listener: the three attached at its creation, none once                 *)
(* removeAllListeners has been called),                                    *)
(* trail (the values this.state has taken), exit (how the last _process    *)
(* call returned, "Error" when an exception left it), moreAt (the state    *)
(* whose step raised E_MORE when that call returned on E_MORE), fatalAt    *)
(* (the state whose step raised another condition), and immediates (the    *)
(* arguments of the _read calls queued by setImmediate).                   *)
(***************************************************************************)
NONE == NULL

NewWriter ==
    [state |-> HEADER, bufferQueue |-> NewBufferQueue, sequence |-> 0,
     subSequence |-> 0, astWriter |-> NULL, astListeners |-> {},
     lastSwallowedRead |-> -1,
     pushed |-> <<>>, ended |-> 0, errorListener |-> FALSE, errorEvents |-> 0,
     uncaught |-> 0, trail |-> <<HEADER>>,
     exit |-> "none", moreAt |-> NONE, fatalAt |-> NONE, immediates |-> <<>>]

\* switch (this.state) { case ...: this._write...(); }
Step(a, w) ==
    CASE w.state = HEADER -> _writeHeader(a, w)
      [] w.state = CONSTANTS_COUNT -> _writeConstantsCount(a, w)
      [] w.state = CONSTANTS_I32 -> _writeConstantsI32(a, w)
      [] w.state = CONSTANTS_F32 -> _writeConstantsF32(a, w)
      [] w.state = CONSTANTS_F64 -> _writeConstantsF64(a, w)
      [] w.state = SIGNATURES_COUNT -> _writeSignaturesCount(a, w)
      [] w.state = SIGNATURES -> _writeSignatures(a, w)
      [] w.state = FUNCTION_IMPORTS_COUNT -> _writeFunctionImportsCount(a, w)
      [] w.state = FUNCTION_IMPORTS -> _writeFunctionImports(a, w)
      [] w.state = GLOBAL_VARIABLES_COUNT -> _writeGlobalVariablesCount(a, w)
      [] w.state = GLOBAL_VARIABLES -> _writeGlobalVariables(a, w)
      [] w.state = FUNCTION_DECLARATIONS_COUNT -> _writeFunctionDeclarationsCount(a, w)
      [] w.state = FUNCTION_DECLARATIONS -> _writeFunctionDeclarations(a, w)
      [] w.state = FUNCTION_POINTER_TABLES_COUNT -> _writeFunctionPointerTablesCount(a, w)
      [] w.state = FUNCTION_POINTER_TABLES -> _writeFunctionPointerTables(a, w)
      [] w.state = FUNCTION_POINTER_ELEMENTS -> _writeFunctionPointerElements(a, w)
      [] w.state = FUNCTION_DEFINITIONS -> _writeFunctionDefinitions(a, w)
      [] w.state = EXPORT -> _writeExport(a, w)
      [] OTHER -> Ret(w, "Error", FALSE)

\* if (this.state !== initialState) this.emit("switchState", ...)
SwitchState(w, initialState) ==
    IF w.state # initialState THEN [w EXCEPT !.trail = Append(@, w.state)] ELSE w

\* case END/ERROR: push(bufferQueue.toBuffer()); bufferQueue.clear(true); push(null)
Finish(w) ==
    [w EXCEPT !.pushed = @ \o BQtoBuffer(w.bufferQueue),
              !.bufferQueue = BQclear(@, TRUE),
              !.ended = @ + 1,
              !.exit = "end",
              !.moreAt = NONE]

\* Variant: the queue is not reset before the retry.
CatchMore_noReset(w, initialState) ==
    LET q == w.bufferQueue
        buf == BQtoBuffer(q)
    IN  [w EXCEPT !.pushed = @ \o buf,
                  !.bufferQueue = IF Len(buf) > 0 THEN BQclear(q, FALSE) ELSE q,
                  !.exit = "E_MORE",
                  !.moreAt = initialState]

\* catch (err) with err === E_MORE
CatchMore(w, initialState) ==
    LET q == BQreset(w.bufferQueue)
        buf == BQtoBuffer(q)
    IN  [w EXCEPT !.pushed = @ \o buf,
                  !.bufferQueue = IF Len(buf) > 0 THEN BQclear(q, FALSE) ELSE q,
                  !.exit = "E_MORE",
                  !.moreAt = initialState]

\* catch (err) with any other err: emit("error", err); this.state = ERROR.
\* With no "error" listener attached emit("error", err) throws err itself:
\* the assignment is not reached and the exception leaves _process.
CatchError(w, initialState) ==
    IF w.errorListener
    THEN [w EXCEPT !.errorEvents = @ + 1,
                   !.state = ERROR,
                   !.trail = Append(@, ERROR),
                   !.fatalAt = initialState]
    ELSE [w EXCEPT !.exit = "Error",
                   !.moreAt = NONE,
                   !.fatalAt = initialState,
                   !.uncaught = @ + 1]

\* The rest of an iteration of the while (true) loop of _process, once the
\* step of the state has returned or raised r.
RECURSIVE ProcessLoop(_, _)
AfterStep(a, w, r) ==
    IF r.thrown = "none"
    THEN IF r.value
         THEN [r.w EXCEPT !.exit = "astWriter", !.moreAt = NONE]
         ELSE ProcessLoop(a, SwitchState(r.w, w.state))
    ELSE IF r.thrown = "E_MORE"
    THEN CatchMore(SwitchState(r.w, w.state), w.state)
    ELSE IF r.w.errorListener
    THEN ProcessLoop(a, CatchError(SwitchState(r.w, w.state), w.state))
    ELSE CatchError(SwitchState(r.w, w.state), w.state)

ProcessIteration(a, w) ==
    IF w.state \in {END, ERROR}
    THEN Finish(w)
    ELSE CHOOSE result \in {AfterStep(a, w, r) : r \in {Step(a, w)}} : TRUE

\* The while (true) loop of _process (v is the writer as the iteration finds it).
ProcessLoop(a, w) == CHOOSE result \in {ProcessIteration(a, v) : v \in {w}} : TRUE

\* Variant: the loop is entered whatever the state is.
_process_noEarlyReturn(a, w) == ProcessLoop(a, w)

_process(a, w) ==
    IF w.state = END \/ w.state = ERROR THEN w ELSE ProcessLoop(a, w)

\* Variant: a read is processed although a Body Writer is active.
_read_noSwallow(a, w, size) ==
    IF size <= 0
    THEN w
    ELSE _process(a, [w EXCEPT !.bufferQueue = BQpush(@, size)])

\* Variant: reads are swallowed for as long as the function definitions are written.
_read_swallowInDefinitions(a, w, size) ==
    IF w.astWriter # NULL \/ w.state = FUNCTION_DEFINITIONS
    THEN [w EXCEPT !.lastSwallowedRead = size]
    ELSE IF size <= 0
    THEN w
    ELSE _process(a, [w EXCEPT !.bufferQueue = BQpush(@, size)])

_read(a, w, size) ==
    IF w.astWriter # NULL
    THEN [w EXCEPT !.lastSwallowedRead = size]
    ELSE IF size <= 0
    THEN w
    ELSE _process(a, [w EXCEPT !.bufferQueue = BQpush(@, size)])

(***************************************************************************)
(* The listeners the Writer installs on its Body Writer                    *)
(* (_writeFunctionDefinitions).                                            *)
(***************************************************************************)
\* Variant: the completion handler leaves the listeners on the Body Writer.
AstWriterOnEnd_keepListeners(w) ==
    [w EXCEPT !.astWriter = NULL,
              !.sequence = @ + 1,
              !.immediates = Append(@, w.lastSwallowedRead)]

\* removeAllListeners(); astWriter = null; ++sequence; setImmediate(_read ...)
AstWriterOnEnd(w) ==
    [w EXCEPT !.astListeners = {},
              !.astWriter = NULL,
              !.sequence = @ + 1,
              !.immediates = Append(@, w.lastSwallowedRead)]

AstWriterOnData(w, chunk) == [w EXCEPT !.pushed = @ \o chunk]

\* removeAllListeners(); astWriter = null; state = ERROR; emit("error", err)
AstWriterOnError(w) ==
    [w EXCEPT !.astListeners = {},
              !.astWriter = NULL,
              !.state = ERROR,
              !.trail = Append(@, ERROR),
              !.errorEvents = IF w.errorListener THEN @ + 1 ELSE @]

(***************************************************************************)
(* ast/Writer.js, the Body Writer (not part of the sources at hand): it    *)
(* writes the nodes of the definition's tree depth-first to the queue it   *)
(* shares with the Writer, one commit per node, hands the committed bytes  *)
(* over as "data" when a commit finds no room or the tree is done, and     *)
(* signals "end", or "error" at a node it cannot encode.  astWriter holds  *)
(* the number of nodes written.                                            *)
(***************************************************************************)
RECURSIVE Flatten(_)
Flatten(stmts) ==
    IF stmts = <<>>
    THEN <<>>
    ELSE <<Head(stmts).code>> \o Flatten(Head(stmts).operands) \o Flatten(Tail(stmts))

RECURSIVE AstWriterProcess(_, _)
AstWriterNode(w, nodes) ==
    IF w.astWriter = Len(nodes)
    THEN AstWriterOnEnd(
             AstWriterOnData([w EXCEPT !.bufferQueue = BQclear(@, FALSE)],
                             BQtoBuffer(w.bufferQueue)))
    ELSE IF nodes[w.astWriter + 1] = UnknownOpcode
    THEN AstWriterOnError(w)
    ELSE LET c == Commit(w, UInt8(nodes[w.astWriter + 1]))
         IN  IF c.ok
             THEN AstWriterProcess([c.w EXCEPT !.astWriter = @ + 1], nodes)
             ELSE LET q == BQreset(c.w.bufferQueue)
                      buf == BQtoBuffer(q)
                  IN  AstWriterOnData(
                          [c.w EXCEPT !.bufferQueue =
                               IF Len(buf) > 0 THEN BQclear(q, FALSE) ELSE q],
                          buf)

AstWriterProcess(w, nodes) ==
    CHOOSE result \in {AstWriterNode(v, n) : v \in {w}, n \in {nodes}} : TRUE

AstWriterRead(a, w, size) ==
    AstWriterProcess([w EXCEPT !.bufferQueue = BQpush(@, size)],
                     Flatten(a.functionDefinitions[w.sequence + 1].ast))

(***************************************************************************)
(* The assemblies the writer is run on.                                    *)
(***************************************************************************)
Arg(type) == [type |-> type, isArgument |-> TRUE]

Local(type) == [type |-> type, isArgument |-> FALSE]

Stmt(code, operands) == [code |-> code, operands |-> operands]

\* Function definitions: locals and tree.
DefinitionPlain ==
    [variables |-> <<Arg(TypeF64), Local(TypeI32)>>,
     ast |-> <<Stmt(7, <<Stmt(8, <<>>), Stmt(9, <<>>)>>), Stmt(10, <<>>)>>]

DefinitionEmpty == [variables |-> <<>>, ast |-> <<>>]

DefinitionFlags ==
    [variables |-> <<Arg(TypeI32), Local(TypeI32), Local(TypeF32), Local(TypeF32)>>,
     ast |-> <<Stmt(11, <<>>)>>]

DefinitionUnknownOpcode ==
    [variables |-> <<Local(TypeI32)>>,
     ast |-> <<Stmt(12, <<Stmt(UnknownOpcode, <<>>)>>), Stmt(13, <<>>)>>]

DefinitionIllegalVariable ==
    [variables |-> <<Local(TypeI32), Local(TypeVoid)>>, ast |-> <<Stmt(14, <<>>)>>]

\* One I32 local more than the packed immediate holds.
DefinitionManyLocals ==
    [variables |-> [i \in 1..(OpWithImm_ImmMax + 1) |-> Local(TypeI32)],
     ast |-> <<Stmt(15, <<>>)>>]

Definitions ==
    {DefinitionPlain, DefinitionEmpty, DefinitionFlags, DefinitionUnknownOpcode,
     DefinitionIllegalVariable, DefinitionManyLocals}

\* Global variables: the import name of a zero-initialized global is null.
GlobalVariable(type, imported) ==
    [type |-> type, imported |-> imported,
     importName |-> IF imported THEN <<103, 48 + type>> ELSE NoName]

GlobalVariables ==
    {GlobalVariable(t, i) : t \in {TypeI32, TypeF32, TypeF64}, i \in BOOLEAN}

SeqsUpTo(S, n) == UNION {[1..k -> S] : k \in 0..n}

DefaultExport(index) == [kind |-> "DefaultExport", function |-> index, functions |-> <<>>]

RecordExport(functions) ==
    [kind |-> "RecordExport", function |-> 0, functions |-> functions]

\* A record whose second name is an array index: "m" was inserted before "1".
RecordExportIndexName ==
    RecordExport(<<[name |-> <<109>>, index |-> 0], [name |-> <<49>>, index |-> 1]>>)

\* A record whose second name is an array index of ten digits, 1000000000.
RecordExportLongIndexName ==
    RecordExport(<<[name |-> <<109>>, index |-> 0],
                   [name |-> <<49, 48, 48, 48, 48, 48, 48, 48, 48, 48>>, index |-> 1]>>)

\* An export that is neither a DefaultExport nor a RecordExport.
OtherExport == [kind |-> "Object", function |-> 0, functions |-> <<>>]

Exports ==
    {DefaultExport(0),
     RecordExport(<<[name |-> <<109>>, index |-> 0], [name |-> <<105>>, index |-> 1]>>),
     RecordExportIndexName,
     RecordExportLongIndexName,
     OtherExport}

Signatures ==
    <<[returnType |-> TypeI32, argumentTypes |-> <<TypeF64, TypeF64>>],
      [returnType |-> TypeVoid, argumentTypes |-> <<>>]>>

Declarations(n) == [i \in 1..n |-> [signature |-> (i - 1) % 2]]

BaseAssembly ==
    [precomputedSize |-> 40,
     constantsI32 |-> <<>>, constantsF32 |-> <<>>, constantsF64 |-> <<>>,
     signatures |-> Signatures,
     functionImports |-> <<>>,
     globalVariables |-> <<>>,
     functionDeclarations |-> Declarations(1),
     functionPointerTables |-> <<>>,
     functionDefinitions |-> <<DefinitionPlain>>,
     export |-> DefaultExport(0)]

\* One pool varies at a time over the base assembly.
AssembliesByGlobals ==
    {[BaseAssembly EXCEPT !.globalVariables = g,
                          !.functionDefinitions = <<DefinitionEmpty>>] :
        g \in SeqsUpTo(GlobalVariables, MaxGlobals)}

AssembliesByDefinitions ==
    {[BaseAssembly EXCEPT !.functionDefinitions = d,
                          !.functionDeclarations = Declarations(Len(d))] :
        d \in SeqsUpTo(Definitions, 2)}

AssembliesByExport == {[BaseAssembly EXCEPT !.export = e] : e \in Exports}

AssembliesByPools ==
    {[BaseAssembly EXCEPT
         !.constantsI32 = <<300, 5>>,
         !.constantsF32 = <<1065353216>>,
         !.constantsF64 = <<<<0, 1072693248>>>>,
         !.functionImports = <<[importName |-> <<102>>, signatures |-> <<0, 1>>]>>,
         !.globalVariables = <<GlobalVariable(TypeI32, FALSE),
                               GlobalVariable(TypeF64, FALSE),
                               GlobalVariable(TypeI32, TRUE)>>,
         !.functionPointerTables = t] :
        t \in {<<>>,
               <<[signature |-> 0, elements |-> <<0, 200>>],
                 [signature |-> 1, elements |-> <<>>],
                 [signature |-> 1, elements |-> <<0>>]>>}}

Assemblies ==
    AssembliesByGlobals \cup AssembliesByDefinitions \cup AssembliesByExport
    \cup AssembliesByPools

(***************************************************************************)
(* reflect.FunctionDefinition: the table of local variables and the        *)
(* statement tree.  The nodes of the tree live in a heap: a node is named  *)
(* by its position in the heap (its identity), and an operand slot holds   *)
(* either a node or IMM, a value that is not a statement.                  *)
(***************************************************************************)
IMM == 0

\* The writer runs without a function definition of its own and no call.
NoDefinition == [argumentTypes |-> <<>>, variables |-> <<>>, ast |-> <<>>, heap |-> <<>>]

NoCall == [op |-> "none"]

\* this.ast = null: no statement list.  A list holds nodes, which are
\* positions in the heap (1, 2, ...); the list of the one item NULL stands
\* for null.
NoAst == <<NULL>>

\* Variant: the F64 locals are laid out before the F32 locals.
FunctionDefinition_F64First(argumentTypes, nI32vars, nF32vars, nF64vars) ==
    [argumentTypes |-> argumentTypes,
     variables |-> [i \in 1..Len(argumentTypes) |-> Arg(argumentTypes[i])]
                   \o [i \in 1..nI32vars |-> Local(TypeI32)]
                   \o [i \in 1..nF64vars |-> Local(TypeF64)]
                   \o [i \in 1..nF32vars |-> Local(TypeF32)],
     ast |-> NoAst,
     heap |-> <<>>]

\* new FunctionDefinition(declaration, nI32vars, nF32vars, nF64vars): the
\* arguments of the declaration's signature, then the locals type by type.
FunctionDefinition(argumentTypes, nI32vars, nF32vars, nF64vars) ==
    [argumentTypes |-> argumentTypes,
     variables |-> [i \in 1..Len(argumentTypes) |-> Arg(argumentTypes[i])]
                   \o [i \in 1..nI32vars |-> Local(TypeI32)]
                   \o [i \in 1..nF32vars |-> Local(TypeF32)]
                   \o [i \in 1..nF64vars |-> Local(TypeF64)],
     ast |-> NoAst,
     heap |-> <<>>]

\* util.assertInteger("index", index, 0, this.variables.length-1)
assertInteger(value, min, max) == value >= min /\ value <= max

\* FunctionDefinition.prototype.getVariable
getVariable(d, index) ==
    IF assertInteger(index, 0, Len(d.variables) - 1)
    THEN [thrown |-> "none", value |-> d.variables[index + 1]]
    ELSE [thrown |-> "RangeError", value |-> NULL]

\* operand instanceof BaseStmt
IsBaseStmt(operand) == operand # IMM

\* The operands of a node that are nodes, in operand order.
StmtOperands(heap, stmt) == SelectSeq(heap[stmt].operands, IsBaseStmt)

RECURSIVE Reverse(_)
Reverse(s) == IF s = <<>> THEN <<>> ELSE Reverse(Tail(s)) \o <<Head(s)>>

\* What the optimize operation of a node's behavior does.  The behaviors are
\* those of the behavior contract: "same" returns the node untouched,
\* "recode" changes the node's opcode in place and returns the node, "child"
\* returns the node's first operand node, "leaf" returns a new node without
\* operands, "wrap" returns a new node whose operand is the node itself and
\* "dup" returns a new node holding the node's first operand node twice.  A
\* new node has no optimize operation.
RecodedOpcode == 99

NewStmt(code, operands) == [code |-> code, operands |-> operands, behavior |-> "none"]

BehaviorOptimize(heap, stmt) ==
    LET node == heap[stmt]
        operands == StmtOperands(heap, stmt)
        fresh == Len(heap) + 1
    IN  CASE node.behavior = "same" -> [heap |-> heap, optimizedStmt |-> stmt]
          [] node.behavior = "recode" ->
               [heap |-> [heap EXCEPT ![stmt].code = RecodedOpcode],
                optimizedStmt |-> stmt]
          [] node.behavior = "child" ->
               [heap |-> heap,
                optimizedStmt |-> IF operands = <<>> THEN stmt ELSE operands[1]]
          [] node.behavior = "leaf" ->
               [heap |-> Append(heap, NewStmt(90, <<IMM>>)), optimizedStmt |-> fresh]
          [] node.behavior = "wrap" ->
               [heap |-> Append(heap, NewStmt(91, <<stmt>>)), optimizedStmt |-> fresh]
          [] node.behavior = "dup" ->
               [heap |-> Append(heap,
                                NewStmt(92, IF operands = <<>> THEN <<IMM>>
                                            ELSE <<operands[1], operands[1]>>)),
                optimizedStmt |-> fresh]

\* The while loop of replace: pop a node, put newStmt in each of its operand
\* slots that holds oldStmt, push the operands it held.  The loop has no
\* other exit than the empty stack, and on a tree that has come to hold a
\* cycle it does not end.  To tell the two apart each item of the stack
\* carries, besides its node, the nodes the walk came through on its way to
\* it (path) and the number of nodes rewritten when it was pushed (at); a
\* path is void once a further node has been rewritten.
StackItem(node, path, at) == [node |-> node, path |-> path, at |-> at]

\* stack.push of each of the nodes, none of them reached from another.
StackItems(nodes) == [i \in 1..Len(nodes) |-> StackItem(nodes[i], {}, 0)]

\* The walk at the head of the loop: the tree, the stack, the number of
\* nodes rewritten so far, and whether it is known not to end.
NewWalk(heap, nodes) ==
    [heap |-> heap, stack |-> StackItems(nodes), writes |-> 0, diverges |-> FALSE]

\* The node on top is on its own path and no slot has been rewritten since it
\* was popped there: the pops from that one to this one are made again, from
\* the same tree and with the same items on top, without end.
Recurs(walk) ==
    LET top == walk.stack[Len(walk.stack)]
    IN  top.at = walk.writes /\ top.node \in top.path

\* while (stack.length > 0): the loop is left, or is known never to be.
WalkOver(walk) == walk.stack = <<>> \/ walk.diverges

\* One iteration of the loop.
ReplaceStep(walk, oldStmt, newStmt) ==
    LET top == walk.stack[Len(walk.stack)]
        current == top.node
        held == walk.heap[current].operands
        rewrites == \E i \in 1..Len(held) : IsBaseStmt(held[i]) /\ held[i] = oldStmt
        at == IF rewrites THEN walk.writes + 1 ELSE walk.writes
        path == IF rewrites THEN {}
                ELSE IF top.at = walk.writes THEN top.path \cup {current}
                ELSE {current}
        pushed == SelectSeq(held, IsBaseStmt)
    IN  IF Recurs(walk) THEN [walk EXCEPT !.diverges = TRUE]
        ELSE [heap |-> [walk.heap EXCEPT ![current].operands =
                           [i \in 1..Len(held) |->
                               IF IsBaseStmt(held[i]) /\ held[i] = oldStmt
                               THEN newStmt ELSE held[i]]],
              stack |-> SubSeq(walk.stack, 1, Len(walk.stack) - 1)
                           \o [i \in 1..Len(pushed) |-> StackItem(pushed[i], path, at)],
              writes |-> at,
              diverges |-> FALSE]

\* The next 2^k iterations, or those that are left.  (The iterations are
\* made in runs of 1, 2, 4, ... so that a walk of many pops is computed
\* without nesting as deep as it is long.)
RECURSIVE ReplaceSteps(_, _, _, _)
ReplaceSteps(walk, oldStmt, newStmt, k) ==
    IF WalkOver(walk) THEN walk
    ELSE IF k = 0 THEN ReplaceStep(walk, oldStmt, newStmt)
    ELSE CHOOSE result \in
             {ReplaceSteps(half, oldStmt, newStmt, k - 1) :
                 half \in {ReplaceSteps(walk, oldStmt, newStmt, k - 1)}} :
             TRUE

RECURSIVE ReplaceLoop(_, _, _, _)
ReplaceLoop(walk, oldStmt, newStmt, k) ==
    IF WalkOver(walk) THEN walk
    ELSE CHOOSE result \in
             {ReplaceLoop(next, oldStmt, newStmt, k + 1) :
                 next \in {ReplaceSteps(walk, oldStmt, newStmt, k)}} :
             TRUE

\* The walk of replace from a stack of nodes, its top the last of them.
ReplaceWalk(heap, stack, oldStmt, newStmt) ==
    LET walk == ReplaceLoop(NewWalk(heap, stack), oldStmt, newStmt, 0)
    IN  [heap |-> walk.heap, diverges |-> walk.diverges]

\* Variant: only the first slot that holds oldStmt is given newStmt.
replace_firstOnly(d, oldStmt, newStmt) ==
    LET roots == {i \in 1..Len(d.ast) : d.ast[i] = oldStmt}
        holders == {n \in 1..Len(d.heap) :
                       \E i \in 1..Len(d.heap[n].operands) :
                           d.heap[n].operands[i] = oldStmt}
        root == CHOOSE i \in roots : \A j \in roots : i <= j
        holder == CHOOSE n \in holders : \A m \in holders : n <= m
        slots == {i \in 1..Len(d.heap[holder].operands) :
                     d.heap[holder].operands[i] = oldStmt}
        slot == CHOOSE i \in slots : \A j \in slots : i <= j
    IN  [definition |->
            IF roots # {} THEN [d EXCEPT !.ast[root] = newStmt]
            ELSE IF holders # {} THEN [d EXCEPT !.heap[holder].operands[slot] = newStmt]
            ELSE d,
         diverges |-> FALSE]

\* replace(ast, oldStmt, newStmt): the root slots first, then the walk.
replace(d, oldStmt, newStmt) ==
    LET walk == ReplaceWalk(d.heap, Reverse(d.ast), oldStmt, newStmt)
    IN  [definition |->
            [d EXCEPT !.ast = [i \in 1..Len(d.ast) |->
                                  IF d.ast[i] = oldStmt THEN newStmt ELSE d.ast[i]],
                      !.heap = walk.heap],
         diverges |-> walk.diverges]

\* Variant: every node that has an optimize operation counts as changed.
CountChange_always(stmt, optimizedStmt, code, optimizedCode) == 1

\* Variant: a change of the opcode alone does not count.
CountChange_identityOnly(stmt, optimizedStmt, code, optimizedCode) ==
    IF optimizedStmt # stmt THEN 1 ELSE 0

\* if (optimizedStmt !== stmt) ++n; else if (optimizedStmt.code !== code) ++n;
CountChange(stmt, optimizedStmt, code, optimizedCode) ==
    IF optimizedStmt # stmt THEN 1
    ELSE IF optimizedCode # code THEN 1
    ELSE 0

\* The locals of a running optimize(): the work stack (its top is its last
\* item), n, stmt and optimizedStmt of the last iteration, and, for the
\* record, the tree as it was at the call and one entry per visited node.
NewOptimize ==
    [op |-> "optimize", pc |-> "idle", stack |-> <<>>, n |-> 0, stmt |-> NULL,
     optimizedStmt |-> NULL, ast0 |-> <<>>, heap0 |-> <<>>, visits |-> <<>>,
     result |-> NULL]

\* var stack = []; for (i = ast.length-1; i >= 0; --i) stack.push(ast[i]); n = 0;
\* With this.ast still null, this.ast.length raises a TypeError.
OptimizeEnter(d, c) ==
    IF d.ast = NoAst
    THEN [c EXCEPT !.pc = "TypeError"]
    ELSE [c EXCEPT !.pc = "loop", !.stack = Reverse(d.ast), !.n = 0,
                   !.ast0 = d.ast, !.heap0 = d.heap]

\* for (i = stmt.operands.length-1; i >= 0; --i) stack.push(stmt.operands[i])
OptimizePush(heap, stmt, optimizedStmt) == Reverse(StmtOperands(heap, stmt))

\* One iteration of the while loop of optimize().  When replace() does not
\* return, the node has been popped and nothing after the call is reached.
OptimizeIterate(d, c) ==
    LET stmt == c.stack[Len(c.stack)]
        rest == SubSeq(c.stack, 1, Len(c.stack) - 1)
        hasOptimize == d.heap[stmt].behavior # "none"
        code == d.heap[stmt].code
        o == IF hasOptimize THEN BehaviorOptimize(d.heap, stmt)
             ELSE [heap |-> d.heap, optimizedStmt |-> stmt]
        r == IF o.optimizedStmt # stmt
             THEN replace([d EXCEPT !.heap = o.heap], stmt, o.optimizedStmt)
             ELSE [definition |-> [d EXCEPT !.heap = o.heap], diverges |-> FALSE]
        after == r.definition
        visit == [stmt |-> stmt, hasOptimize |-> hasOptimize,
                  optimizedStmt |-> o.optimizedStmt, code |-> code,
                  optimizedCode |-> o.heap[o.optimizedStmt].code]
    IN  IF r.diverges
        THEN [definition |-> after,
              call |-> [c EXCEPT !.pc = "hangs", !.stack = rest, !.stmt = stmt,
                                 !.optimizedStmt = o.optimizedStmt,
                                 !.visits = Append(@, visit)]]
        ELSE [definition |-> after,
              call |-> [c EXCEPT
                  !.stack = rest \o OptimizePush(after.heap, stmt, o.optimizedStmt),
                  !.n = IF hasOptimize
                        THEN @ + CountChange(stmt, o.optimizedStmt, code,
                                             after.heap[o.optimizedStmt].code)
                        ELSE @,
                  !.stmt = stmt,
                  !.optimizedStmt = o.optimizedStmt,
                  !.visits = Append(@, visit)]]

\* return n;
OptimizeLeave(c) == [c EXCEPT !.pc = "done", !.result = c.n]

(***************************************************************************)
(* The state machine: the destination's availability signals, the queued   *)
(* immediates and the Body Writer's own availability signals.              *)
(***************************************************************************)
ReadSizes == (1..MaxRead) \cup {BigRead}

Init ==
    /\ assembly \in Assemblies
    /\ writer = NewWriter
    /\ functionDefinition = NoDefinition
    /\ call = NoCall

\* The destination calls _read(size).
Read ==
    \E size \in ReadSizes :
        /\ writer.bufferQueue.room + size <= MaxRoom
        /\ writer.uncaught < MaxUncaught
        /\ writer' = _read(assembly, writer, size)
        /\ UNCHANGED <<assembly, functionDefinition, call>>

\* A queued setImmediate callback runs _read with the last swallowed size.
Immediate ==
    /\ writer.immediates # <<>>
    /\ writer' = _read(assembly, [writer EXCEPT !.immediates = Tail(@)],
                       Head(writer.immediates))
    /\ UNCHANGED <<assembly, functionDefinition, call>>

\* The active Body Writer is asked for data.
AstRead ==
    /\ writer.astWriter # NULL
    /\ \E size \in ReadSizes :
        /\ writer.bufferQueue.room + size <= MaxRoom
        /\ writer' = AstWriterRead(assembly, writer, size)
    /\ UNCHANGED <<assembly, functionDefinition, call>>

\* The consumer attaches an "error" listener: writer.on("error", ...).
OnError ==
    /\ ~writer.errorListener
    /\ writer' = [writer EXCEPT !.errorListener = TRUE]
    /\ UNCHANGED <<assembly, functionDefinition, call>>

Next == Read \/ Immediate \/ AstRead \/ OnError

Spec == Init /\ [][Next]_vars

\* The runs in which the destination keeps asking for data, queued immediates
\* run and an active Body Writer keeps being asked for data, on the assemblies
\* that vary the function definitions, the export and the other pools.
FairInit ==
    /\ assembly \in AssembliesByDefinitions \cup AssembliesByExport \cup AssembliesByPools
    /\ writer = NewWriter
    /\ functionDefinition = NoDefinition
    /\ call = NoCall

FairSpec ==
    /\ FairInit
    /\ [][Next]_vars
    /\ WF_vars(Read) /\ WF_vars(Immediate) /\ WF_vars(AstRead)

(***************************************************************************)
(* The validate operations of the Load and Store behaviors.  An operand is *)
(* given by its class (an expression class, "Stmt" for a statement that is *)
(* no expression) and, for an expression, its result type; a failed assert *)
(* raises an AssertionError with the message given.                        *)
(***************************************************************************)
Expr(type) ==
    [class |-> CASE type = TypeI32 -> "ExprI32"
                 [] type = TypeF32 -> "ExprF32"
                 [] type = TypeF64 -> "ExprF64",
     type |-> type]

PlainStmt == [class |-> "Stmt", type |-> TypeVoid]

\* index instanceof ExprI32
IsExprI32(operand) == operand.class = "ExprI32"

\* value instanceof BaseExpr
IsBaseExpr(operand) == operand.class \in {"ExprI32", "ExprF32", "ExprF64"}

\* LoadBehavior.prototype.validate
LoadBehavior_validate(heapType, d, stmt) ==
    IF Len(stmt.operands) # 1 THEN "Load requires exactly 1 operand"
    ELSE IF ~IsExprI32(stmt.operands[1])
    THEN "Load heap index (operand 0) must be an I32 expression"
    ELSE "none"

\* "Store value (operand 1) expression must be " + types.RTypeNames[heapType]
ValueTypeMessage(heapType) ==
    CASE heapType = TypeI32 -> "Store value (operand 1) expression must be I32"
      [] heapType = TypeF32 -> "Store value (operand 1) expression must be F32"
      [] heapType = TypeF64 -> "Store value (operand 1) expression must be F64"

\* Variant: the stored value is checked before the heap index.
StoreBehavior_validate_valueFirst(heapType, d, stmt) ==
    IF Len(stmt.operands) # 2 THEN "Store requires exactly 2 operands"
    ELSE IF ~IsBaseExpr(stmt.operands[2])
    THEN "Store value (operand 1) must be an expression"
    ELSE IF stmt.operands[2].type # heapType
    THEN ValueTypeMessage(heapType)
    ELSE IF ~IsExprI32(stmt.operands[1])
    THEN "Store heap index (operand 0) must be an I32 expression"
    ELSE "none"

\* Variant: the result type of the stored value is not compared.
StoreBehavior_validate_noTypeCheck(heapType, d, stmt) ==
    IF Len(stmt.operands) # 2 THEN "Store requires exactly 2 operands"
    ELSE IF ~IsExprI32(stmt.operands[1])
    THEN "Store heap index (operand 0) must be an I32 expression"
    ELSE IF ~IsBaseExpr(stmt.operands[2])
    THEN "Store value (operand 1) must be an expression"
    ELSE "none"

\* StoreBehavior.prototype.validate
StoreBehavior_validate(heapType, d, stmt) ==
    IF Len(stmt.operands) # 2 THEN "Store requires exactly 2 operands"
    ELSE IF ~IsExprI32(stmt.operands[1])
    THEN "Store heap index (operand 0) must be an I32 expression"
    ELSE IF ~IsBaseExpr(stmt.operands[2])
    THEN "Store value (operand 1) must be an expression"
    ELSE IF stmt.operands[2].type # heapType
    THEN ValueTypeMessage(heapType)
    ELSE "none"

(***************************************************************************)
(* Load and Store nodes of every heap type with up to MaxOperands operands *)
(* of every class, validated once.                                         *)
(***************************************************************************)
MaxOperands == 3

Operands == {Expr(TypeI32), Expr(TypeF32), Expr(TypeF64), PlainStmt}

ValidateInit ==
    /\ assembly = BaseAssembly
    /\ writer = NewWriter
    /\ functionDefinition = FunctionDefinition(<<TypeI32>>, 1, 0, 0)
    /\ \E behavior \in {"Load", "Store"}, heapType \in {TypeI32, TypeF32, TypeF64},
          operands \in SeqsUpTo(Operands, MaxOperands) :
          call = [op |-> "node", behavior |-> behavior, heapType |-> heapType,
                  stmt |-> [code |-> 20, operands |-> operands],
                  thrown |-> "none",
                  calls |-> <<>>,
                  stmt0 |-> [code |-> 20, operands |-> operands],
                  definition0 |-> functionDefinition]

\* behavior.validate(definition, stmt) of a Load node.
ValidateLoad ==
    /\ call.op = "node"
    /\ call.behavior = "Load"
    /\ call' = [call EXCEPT
           !.op = "validate",
           !.thrown = LoadBehavior_validate(call.heapType, functionDefinition, call.stmt)]
    /\ UNCHANGED <<assembly, writer, functionDefinition>>

\* behavior.validate(definition, stmt) of a Store node.
ValidateStore ==
    /\ call.op = "node"
    /\ call.behavior = "Store"
    /\ call' = [call EXCEPT
           !.op = "validate",
           !.thrown = StoreBehavior_validate(call.heapType, functionDefinition, call.stmt)]
    /\ UNCHANGED <<assembly, writer, functionDefinition>>

ValidateNext == ValidateLoad \/ ValidateStore

ValidateSpec == ValidateInit /\ [][ValidateNext]_vars

(***************************************************************************)
(* The read and write operations of the Load and Store behaviors.  They    *)
(* drive a reader or a writer s; what they ask of it is kept as the list   *)
(* of the calls made: s.code(code) and s.write(operand) when writing,      *)
(* s.stmt(code) and s.read(wireType) when reading.                         *)
(***************************************************************************)
WireType_ExprI32 == 0

\* stmt.operands[i] of a node that has no such operand.
Undefined == [class |-> "undefined", type |-> TypeVoid]

OperandAt(stmt, i) == IF i < Len(stmt.operands) THEN stmt.operands[i + 1] ELSE Undefined

\* LoadBehavior.prototype.read
LoadBehavior_read(heapType, code) ==
    << <<"stmt", code>>, <<"read", WireType_ExprI32>> >>

\* LoadBehavior.prototype.write
LoadBehavior_write(heapType, stmt) ==
    << <<"code", stmt.code>>, <<"write", OperandAt(stmt, 0)>> >>

\* StoreBehavior.prototype.read
StoreBehavior_read(heapType, code) ==
    << <<"stmt", code>>, <<"read", WireType_ExprI32>>, <<"read", heapType>> >>

\* Variant: the value is written before the heap index.
StoreBehavior_write_valueFirst(heapType, stmt) ==
    << <<"code", stmt.code>>, <<"write", OperandAt(stmt, 1)>>,
       <<"write", OperandAt(stmt, 0)>> >>

\* StoreBehavior.prototype.write
StoreBehavior_write(heapType, stmt) ==
    << <<"code", stmt.code>>, <<"write", OperandAt(stmt, 0)>>,
       <<"write", OperandAt(stmt, 1)>> >>

\* behavior.write(s, stmt), and behavior.read(s, stmt.code) for the same opcode.
WriteLoad ==
    /\ call.op = "node"
    /\ call.behavior = "Load"
    /\ call' = [call EXCEPT !.op = "write",
                            !.calls = LoadBehavior_write(call.heapType, call.stmt)]
    /\ UNCHANGED <<assembly, writer, functionDefinition>>

WriteStore ==
    /\ call.op = "node"
    /\ call.behavior = "Store"
    /\ call' = [call EXCEPT !.op = "write",
                            !.calls = StoreBehavior_write(call.heapType, call.stmt)]
    /\ UNCHANGED <<assembly, writer, functionDefinition>>

ReadLoad ==
    /\ call.op = "node"
    /\ call.behavior = "Load"
    /\ call' = [call EXCEPT !.op = "read",
                            !.calls = LoadBehavior_read(call.heapType, call.stmt.code)]
    /\ UNCHANGED <<assembly, writer, functionDefinition>>

ReadStore ==
    /\ call.op = "node"
    /\ call.behavior = "Store"
    /\ call' = [call EXCEPT !.op = "read",
                            !.calls = StoreBehavior_read(call.heapType, call.stmt.code)]
    /\ UNCHANGED <<assembly, writer, functionDefinition>>

CodecNext == WriteLoad \/ WriteStore \/ ReadLoad \/ ReadStore

CodecSpec == ValidateInit /\ [][CodecNext]_vars

(***************************************************************************)
(* Function definitions built from every signature of up to MaxVars        *)
(* arguments with up to MaxVars locals of each type, and the variable      *)
(* looked up at every index from one below to one above the table.         *)
(***************************************************************************)
MaxVars == 2

VariableInit ==
    /\ assembly = BaseAssembly
    /\ writer = NewWriter
    /\ \E argumentTypes \in SeqsUpTo({TypeI32, TypeF32, TypeF64}, MaxVars),
          nI32vars \in 0..MaxVars, nF32vars \in 0..MaxVars, nF64vars \in 0..MaxVars :
          /\ functionDefinition =
                 FunctionDefinition(argumentTypes, nI32vars, nF32vars, nF64vars)
          /\ call = [op |-> "new",
                     built |-> <<argumentTypes, nI32vars, nF32vars, nF64vars>>,
                     index |-> NULL, thrown |-> "none", value |-> NULL,
                     before |-> <<>>]

\* definition.getVariable(index)
GetVariable ==
    \E index \in (-1)..(Len(functionDefinition.variables) + 1) :
        /\ call' = [call EXCEPT
               !.op = "getVariable",
               !.index = index,
               !.thrown = getVariable(functionDefinition, index).thrown,
               !.value = getVariable(functionDefinition, index).value,
               !.before = functionDefinition.variables]
        /\ UNCHANGED <<assembly, writer, functionDefinition>>

VariableNext == GetVariable

VariableSpec == VariableInit /\ [][VariableNext]_vars

(***************************************************************************)
(* optimize() run once over every statement tree of up to MaxNodes nodes:  *)
(* node k hangs under an earlier node or is a root, a node's operands are  *)
(* its children in order (a node without children holds one immediate),    *)
(* and every node has one of the behaviors.                                *)
(***************************************************************************)
MaxNodes == 3

Behaviors == {"none", "same", "recode", "child", "leaf", "wrap", "dup"}

\* The children of node p when node k hangs under parent[k] (0: a root).
RECURSIVE ChildrenOf(_, _, _)
ChildrenOf(parent, p, k) ==
    IF k > Len(parent) THEN <<>>
    ELSE (IF parent[k] = p THEN <<k>> ELSE <<>>) \o ChildrenOf(parent, p, k + 1)

TreeHeap(parent, behavior) ==
    [k \in 1..Len(parent) |->
        [code |-> 10 + k,
         operands |-> IF ChildrenOf(parent, k, 1) = <<>> THEN <<IMM>>
                      ELSE ChildrenOf(parent, k, 1),
         behavior |-> behavior[k]]]

Parents(n) == {parent \in [1..n -> 0..(n - 1)] : \A k \in 1..n : parent[k] < k}

OptimizeInit ==
    /\ assembly = BaseAssembly
    /\ writer = NewWriter
    /\ call = NewOptimize
    /\ \/ functionDefinition = FunctionDefinition(<<>>, 0, 0, 0)
       \/ \E n \in 0..MaxNodes :
             \E parent \in Parents(n), behavior \in [1..n -> Behaviors] :
                 functionDefinition =
                     [FunctionDefinition(<<>>, 0, 0, 0) EXCEPT
                         !.ast = ChildrenOf(parent, 0, 1),
                         !.heap = TreeHeap(parent, behavior)]

\* definition.optimize() is called.
OptimizeCall ==
    /\ call.pc = "idle"
    /\ call' = OptimizeEnter(functionDefinition, call)
    /\ UNCHANGED <<assembly, writer, functionDefinition>>

\* while (stack.length > 0) { ... }
OptimizeIteration ==
    /\ call.pc = "loop"
    /\ call.stack # <<>>
    /\ functionDefinition' = OptimizeIterate(functionDefinition, call).definition
    /\ call' = OptimizeIterate(functionDefinition, call).call
    /\ UNCHANGED <<assembly, writer>>

\* The stack is empty: optimize() returns n.
OptimizeReturn ==
    /\ call.pc = "loop"
    /\ call.stack = <<>>
    /\ call' = OptimizeLeave(call)
    /\ UNCHANGED <<assembly, writer, functionDefinition>>

OptimizeNext == OptimizeCall \/ OptimizeIteration \/ OptimizeReturn

OptimizeSpec == OptimizeInit /\ [][OptimizeNext]_vars

TypeOK ==
    /\ writer.state \in HEADER..ERROR
    /\ writer.bufferQueue.room \in 0..(MaxRoom + 2 * BigRead)
    /\ writer.astWriter # NULL => writer.state = FUNCTION_DEFINITIONS

\* Until the writer is done or an exception has left it, the bound on the
\* room keeps no read from arriving.
ReadsNotBlocked ==
    (writer.state \notin {END, ERROR} /\ writer.uncaught = 0) =>
        writer.bufferQueue.room + BigRead <= MaxRoom

(***************************************************************************)
(* The wire format section by section, as one concatenation, against which *)
(* the bytes the state machine delivers are compared.                      *)
(***************************************************************************)
IsPrefix(s, t) == Len(s) <= Len(t) /\ SubSeq(t, 1, Len(s)) = s

Last(s) == s[Len(s)]

BytesBeforeGlobals(a) ==
    UInt32LE(MagicNumber) \o UInt32LE(a.precomputedSize)
    \o Varint(Len(a.constantsI32)) \o Varint(Len(a.constantsF32))
    \o Varint(Len(a.constantsF64))
    \o Concat(ConstantI32Entries(a)) \o Concat(ConstantF32Entries(a))
    \o Concat(ConstantF64Entries(a))
    \o Varint(Len(a.signatures)) \o Concat(SignatureEntries(a))
    \o Varint(Len(a.functionImports)) \o Varint(getFunctionImportSignaturePoolSize(a))
    \o Concat(FunctionImportEntries(a))

GlobalCountBytes(a) ==
    LET s == GlobalVariablesScan(a)
    IN  Varint(s.nI32zero) \o Varint(s.nF32zero) \o Varint(s.nF64zero)
        \o Varint(s.nI32import) \o Varint(s.nF32import) \o Varint(s.nF64import)

\* The names of the globals at indices from..to-1.
GlobalNameBytes(a, from, to) ==
    Concat([i \in 1..(to - from) |-> CString(a.globalVariables[from + i].importName)])

FunctionPointerTableBytes(table) ==
    FunctionPointerTableHeader(table)
    \o Concat([i \in 1..Len(table.elements) |-> Varint(table.elements[i])])

DefinitionBytes(definition) ==
    LET nodes == Flatten(definition.ast)
    IN  VariablesHeader(definition.variables)
        \o Concat([i \in 1..Len(nodes) |-> UInt8(nodes[i])])

\* Everything up to the function definition at index n.
BytesBeforeDefinition(a, n) ==
    BytesBeforeGlobals(a) \o GlobalCountBytes(a)
    \o GlobalNameBytes(a, GlobalVariablesScan(a).sequence, Len(a.globalVariables))
    \o Varint(Len(a.functionDeclarations)) \o Concat(FunctionDeclarationEntries(a))
    \o Varint(Len(a.functionPointerTables))
    \o Concat([i \in 1..Len(a.functionPointerTables) |->
                  FunctionPointerTableBytes(a.functionPointerTables[i])])
    \o Concat([i \in 1..n |-> DefinitionBytes(a.functionDefinitions[i])])

ExportBytes(exprt) ==
    IF exprt.kind = "DefaultExport"
    THEN UInt8(ExportFormat_Default) \o Varint(exprt.function)
    ELSE UInt8(ExportFormat_Record) \o Varint(Len(exprt.functions))
         \o RecordExportBytes(exprt.functions)

Encoding(a) ==
    BytesBeforeDefinition(a, Len(a.functionDefinitions)) \o ExportBytes(a.export)

\* The six groups in their mandated order.
GroupOf(variable) == variable.type + (IF variable.imported THEN 3 ELSE 0)

Grouped(pool) ==
    \A i \in 1..Len(pool), j \in 1..Len(pool) :
        i < j => GroupOf(pool[i]) <= GroupOf(pool[j])

CountGroup(pool, g) == Cardinality({i \in 1..Len(pool) : GroupOf(pool[i]) = g})

\* An assembly no step and no Body Writer fails on.
WellFormed(a) ==
    /\ GlobalVariablesScan(a).current = Len(a.globalVariables)
    /\ \A i \in 1..Len(a.globalVariables) :
          i > GlobalVariablesScan(a).sequence => a.globalVariables[i].imported
    /\ \A i \in 1..Len(a.functionDefinitions) :
          /\ ~HasIllegalVariable(a.functionDefinitions[i].variables)
          /\ \A k \in 1..Len(Flatten(a.functionDefinitions[i].ast)) :
                Flatten(a.functionDefinitions[i].ast)[k] # UnknownOpcode
    /\ a.export.kind \in {"DefaultExport", "RecordExport"}

\* The bytes delivered and the bytes committed and waiting for delivery.
Output == writer.pushed \o writer.bufferQueue.committed

(***************************************************************************)
(* C1: the state of the Module Writer only moves along the fixed section   *)
(* order; the only backward step is FUNCTION_POINTER_ELEMENTS to           *)
(* FUNCTION_POINTER_TABLES, no section state is skipped, and the only      *)
(* other transition is into ERROR.                                         *)
(***************************************************************************)
AllowedTransitions ==
    {<<s, s + 1>> : s \in HEADER..FUNCTION_POINTER_TABLES_COUNT}
    \cup {<<FUNCTION_POINTER_TABLES, FUNCTION_POINTER_ELEMENTS>>,
          <<FUNCTION_POINTER_ELEMENTS, FUNCTION_POINTER_TABLES>>,
          <<FUNCTION_POINTER_TABLES, FUNCTION_DEFINITIONS>>,
          <<FUNCTION_DEFINITIONS, EXPORT>>,
          <<EXPORT, END>>}
    \cup {<<s, ERROR>> : s \in HEADER..EXPORT}

C1_StateOrder ==
    /\ writer.trail[1] = HEADER
    /\ Last(writer.trail) = writer.state
    /\ \A i \in 1..(Len(writer.trail) - 1) :
          <<writer.trail[i], writer.trail[i + 1]>> \in AllowedTransitions

C1_Witness ==
    /\ writer.state = END
    /\ writer.ended > 0
    /\ \E i \in 1..(Len(writer.trail) - 1) :
          /\ writer.trail[i] = FUNCTION_POINTER_ELEMENTS
          /\ writer.trail[i + 1] = FUNCTION_POINTER_TABLES

(***************************************************************************)
(* C2: for a well-formed assembly the bytes delivered are, under every     *)
(* schedule of read sizes and suspensions, a prefix of the one encoding of *)
(* the assembly, and all of it once the stream has ended: a retried step   *)
(* emits no entry twice and drops none.                                    *)
(***************************************************************************)
C2_ScheduleIndependent ==
    WellFormed(assembly) =>
        /\ IsPrefix(Output, Encoding(assembly))
        /\ Len(Output) = writer.bufferQueue.offset
        /\ (writer.ended > 0 => writer.pushed = Encoding(assembly))

\* Suspended inside the signature entries after the first one was delivered,
\* and, at the end, the whole encoding delivered.
C2_Witness ==
    /\ WellFormed(assembly)
    /\ writer.exit = "E_MORE"
    /\ writer.state = SIGNATURES
    /\ writer.sequence = 1
    /\ writer.pushed # <<>>

(***************************************************************************)
(* C3: a _process call that returns on insufficient room leaves the state  *)
(* at the step whose commit failed (neither advanced nor ERROR), emits no  *)
(* error event, does not end the stream, and has delivered every committed *)
(* byte; the staged bytes of the failed step are dropped for the retry.    *)
(***************************************************************************)
C3_SuspendOnMore ==
    [][(writer'.exit = "E_MORE" /\ writer' # writer) =>
          /\ writer'.state = writer'.moreAt
          /\ Last(writer'.trail) = writer'.moreAt
          /\ writer'.state \notin {END, ERROR}
          /\ writer'.errorEvents = writer.errorEvents
          /\ writer'.ended = writer.ended
          /\ writer'.bufferQueue.committed = <<>>
          /\ writer'.bufferQueue.staged = <<>>
          /\ IsPrefix(writer.pushed \o writer.bufferQueue.committed, writer'.pushed)
          /\ Len(writer'.pushed) = writer'.bufferQueue.offset]_vars

C3_Witness ==
    /\ writer.exit = "E_MORE"
    /\ writer.state = GLOBAL_VARIABLES
    /\ writer.sequence > GlobalVariablesScan(assembly).sequence
    /\ writer.pushed # <<>>

(***************************************************************************)
(* C4: a condition other than insufficient room raised in a step moves the *)
(* writer to ERROR with an error event; the buffered bytes are flushed,    *)
(* end-of-stream is signaled, and no section after the failing one is      *)
(* entered.                                                                *)
(***************************************************************************)
C4_FatalMovesToError ==
    writer.fatalAt # NONE =>
        /\ writer.state = ERROR
        /\ writer.errorEvents = 1
        /\ writer.ended = 1
        /\ writer.exit = "end"
        /\ writer.bufferQueue.committed = <<>>
        /\ writer.bufferQueue.staged = <<>>
        /\ Len(writer.trail) >= 2
        /\ writer.trail[Len(writer.trail) - 1] = writer.fatalAt
        /\ \A i \in 1..(Len(writer.trail) - 1) : writer.trail[i] <= writer.fatalAt

(***************************************************************************)
(* C5: after the Body Writer's error signal the Module Writer, in ERROR,   *)
(* eventually flushes and signals end-of-stream.                           *)
(***************************************************************************)
C5_BodyErrorEndsStream ==
    (writer.state = ERROR /\ writer.fatalAt = NONE) ~> (writer.ended > 0)

(***************************************************************************)
(* C6: after a fatal condition in a step the bytes committed or delivered  *)
(* are exactly the bytes committed before the failing step, and once the   *)
(* writer is in ERROR all of them have been delivered; what the failing    *)
(* step had staged is not delivered.                                       *)
(***************************************************************************)
BytesBeforeFatal(a, w) ==
    CASE w.fatalAt = GLOBAL_VARIABLES_COUNT -> BytesBeforeGlobals(a)
      [] w.fatalAt = GLOBAL_VARIABLES ->
            BytesBeforeGlobals(a) \o GlobalCountBytes(a)
            \o GlobalNameBytes(a, GlobalVariablesScan(a).sequence, w.sequence)
      [] w.fatalAt = FUNCTION_DEFINITIONS -> BytesBeforeDefinition(a, w.sequence)
      [] w.fatalAt = EXPORT -> BytesBeforeDefinition(a, Len(a.functionDefinitions))
      [] OTHER -> <<>>

C6_OnlyCommittedBytesDelivered ==
    writer.fatalAt # NONE =>
        /\ Output = BytesBeforeFatal(assembly, writer)
        /\ Len(Output) = writer.bufferQueue.offset
        /\ writer.state = ERROR =>
              /\ writer.pushed = BytesBeforeFatal(assembly, writer)
              /\ writer.bufferQueue.staged = <<>>

\* The global counts step failed after staging five counts.
C6_Witness ==
    /\ writer.fatalAt = GLOBAL_VARIABLES_COUNT
    /\ writer.state = ERROR
    /\ writer.ended = 1
    /\ writer.pushed = BytesBeforeGlobals(assembly)
    /\ GlobalVariablesScan(assembly).nF64zero > 0
    /\ GlobalVariablesScan(assembly).nF32import > 0

(***************************************************************************)
(* C7: a global-variable pool that is not in the six-group order makes the *)
(* global counts step fail; no byte of the globals section is committed    *)
(* and the writer never gets past GLOBAL_VARIABLES_COUNT.                  *)
(***************************************************************************)
C7_UngroupedPoolFails ==
    ~Grouped(assembly.globalVariables) =>
        /\ \A i \in 1..Len(writer.trail) :
              writer.trail[i] <= GLOBAL_VARIABLES_COUNT \/ writer.trail[i] = ERROR
        /\ IsPrefix(Output, BytesBeforeGlobals(assembly))
        /\ (writer.state = ERROR => writer.fatalAt = GLOBAL_VARIABLES_COUNT)

(***************************************************************************)
(* C8: for a pool in the six-group order the globals section holds the     *)
(* number of entries of each group, in group order, and then the import    *)
(* name of every imported global in pool order.                            *)
(***************************************************************************)
ImportedNames(pool) ==
    Concat([i \in 1..Len(pool) |->
               IF pool[i].imported THEN CString(pool[i].importName) ELSE <<>>])

GroupedGlobalsSection(pool) ==
    Concat([g \in 1..6 |-> Varint(CountGroup(pool, g - 1))]) \o ImportedNames(pool)

C8_GlobalCountsMatchPool ==
    (/\ Grouped(assembly.globalVariables)
     /\ \E i \in 1..Len(writer.trail) : writer.trail[i] = FUNCTION_DECLARATIONS_COUNT)
    => IsPrefix(BytesBeforeGlobals(assembly)
                \o GroupedGlobalsSection(assembly.globalVariables), Output)

(***************************************************************************)
(* C9: while a Body Writer stays active no step of the Module Writer runs: *)
(* state, indices and trail stay as they are, no _process call returns,    *)
(* the Body Writer is not replaced, and bytes are added only as the Body   *)
(* Writer advances.                                                        *)
(***************************************************************************)
C9_SuspendedWhileBodyWriterActive ==
    [][(writer.astWriter # NULL /\ writer'.astWriter # NULL) =>
          /\ writer'.state = writer.state
          /\ writer'.sequence = writer.sequence
          /\ writer'.subSequence = writer.subSequence
          /\ writer'.trail = writer.trail
          /\ writer'.exit = writer.exit
          /\ writer'.ended = writer.ended
          /\ writer'.astWriter >= writer.astWriter
          /\ (writer'.astWriter = writer.astWriter =>
                writer'.pushed \o writer'.bufferQueue.committed
                    = writer.pushed \o writer.bufferQueue.committed)]_vars

\* A read arrived while the Body Writer was active and was only recorded.
C9_Witness ==
    /\ writer.astWriter # NULL
    /\ writer.astWriter > 0
    /\ writer.lastSwallowedRead > 0
    /\ writer.state = FUNCTION_DEFINITIONS

(***************************************************************************)
(* C10: on a well-formed assembly, with the destination and the Body       *)
(* Writers kept going, the writer gets through every function definition,  *)
(* reaches END and signals end-of-stream.                                  *)
(***************************************************************************)
C10_ReachesEnd ==
    (WellFormed(assembly) /\ writer.ended = 0)
        ~> (/\ writer.state = END
            /\ writer.ended = 1
            /\ writer.sequence = Len(assembly.functionDefinitions)
            /\ writer.pushed = Encoding(assembly))

\* The end reached although no read arrived while a Body Writer was active.
C10_Witness ==
    /\ WellFormed(assembly)
    /\ Len(assembly.functionDefinitions) = 2
    /\ writer.state = END
    /\ writer.ended = 1
    /\ writer.lastSwallowedRead = -1

(***************************************************************************)
(* C11: while the writer is in the function pointer table section the      *)
(* bytes it has emitted are the bytes before the tables, then every table  *)
(* below the current one whole (header, then all its elements in element   *)
(* order), then, inside an element list, the header of the current table   *)
(* and exactly its first subSequence elements: the header of the next      *)
(* table never comes before the last element of the current one, and a     *)
(* suspension inside an element list resumes at the first element not yet  *)
(* committed.                                                              *)
(***************************************************************************)
BytesBeforeTables(a) ==
    BytesBeforeGlobals(a) \o GlobalCountBytes(a)
    \o GlobalNameBytes(a, GlobalVariablesScan(a).sequence, Len(a.globalVariables))
    \o Varint(Len(a.functionDeclarations)) \o Concat(FunctionDeclarationEntries(a))
    \o Varint(Len(a.functionPointerTables))

\* The first n elements of a table, one varint each.
RECURSIVE ElementsWire(_, _)
ElementsWire(elements, n) ==
    IF n = 0 THEN <<>> ELSE ElementsWire(elements, n - 1) \o Varint(elements[n])

\* Signature index, element count, then the first n elements.
TableWire(table, n) ==
    Varint(table.signature) \o Varint(Len(table.elements))
    \o ElementsWire(table.elements, n)

\* The first k tables, each with all of its elements.
RECURSIVE TablesWire(_, _)
TablesWire(tables, k) ==
    IF k = 0 THEN <<>>
    ELSE TablesWire(tables, k - 1) \o TableWire(tables[k], Len(tables[k].elements))

C11_TablesInterleaved ==
    LET tables == assembly.functionPointerTables
        before == BytesBeforeTables(assembly)
    IN  /\ writer.state = FUNCTION_POINTER_TABLES =>
              /\ writer.sequence <= Len(tables)
              /\ Output = before \o TablesWire(tables, writer.sequence)
        /\ writer.state = FUNCTION_POINTER_ELEMENTS =>
              /\ writer.sequence < Len(tables)
              /\ writer.subSequence <= Len(tables[writer.sequence + 1].elements)
              /\ Output = before \o TablesWire(tables, writer.sequence)
                          \o TableWire(tables[writer.sequence + 1], writer.subSequence)
        /\ (writer.state \in {FUNCTION_DEFINITIONS, EXPORT, END}
            /\ WellFormed(assembly)) =>
              IsPrefix(before \o TablesWire(tables, Len(tables)), Output)

\* Suspended inside the element list of the first table, after its first
\* element and before its second, and later inside the last table.
C11_Witness ==
    /\ Len(assembly.functionPointerTables) = 3
    /\ writer.state = FUNCTION_POINTER_ELEMENTS
    /\ writer.exit = "E_MORE"
    /\ writer.sequence = 0
    /\ writer.subSequence = 1

(***************************************************************************)
(* C12: the export is emitted in one commit, so that in state EXPORT no    *)
(* byte of it has been emitted and in state END all of it has: the         *)
(* discriminator 0 and the function index for a Default export, the        *)
(* discriminator 1, the number of entries and one (name, function index)   *)
(* pair per entry, in the order in which the names were inserted, for a    *)
(* Record export.                                                          *)
(***************************************************************************)
\* The pairs of a record in insertion order.
RECURSIVE PairsWire(_)
PairsWire(functions) ==
    IF functions = <<>> THEN <<>>
    ELSE Head(functions).name \o <<0>> \o Varint(Head(functions).index)
         \o PairsWire(Tail(functions))

ExportWire(exprt) ==
    IF exprt.kind = "DefaultExport"
    THEN <<0>> \o Varint(exprt.function)
    ELSE <<1>> \o Varint(Len(exprt.functions)) \o PairsWire(exprt.functions)

BytesBeforeExport(a) == BytesBeforeDefinition(a, Len(a.functionDefinitions))

C12_ExportEncoding ==
    (WellFormed(assembly) /\ Len(assembly.functionPointerTables) = 0) =>
        /\ writer.state = EXPORT => Output = BytesBeforeExport(assembly)
        /\ writer.state = END =>
              Output = BytesBeforeExport(assembly) \o ExportWire(assembly.export)

(***************************************************************************)
(* C13: when the Body Writer of a function definition has just been        *)
(* created, the last bytes emitted are the local-count header of that      *)
(* definition: one packed byte carrying the number of I32 locals when      *)
(* there is no F32 and no F64 local and the I32 locals fit the packed      *)
(* immediate, otherwise a flags byte with the bit of every type that has   *)
(* a local, followed by one varint count per set bit in the order I32,     *)
(* F32, F64.  Arguments are not counted.                                   *)
(***************************************************************************)
RECURSIVE LocalCount(_, _)
LocalCount(variables, type) ==
    IF variables = <<>> THEN 0
    ELSE (IF ~Head(variables).isArgument /\ Head(variables).type = type THEN 1 ELSE 0)
         + LocalCount(Tail(variables), type)

PresentCount(n) == IF n > 0 THEN Varint(n) ELSE <<>>

FlagBit(n, bit) == IF n > 0 THEN bit ELSE 0

LocalHeaderWire(variables) ==
    LET i32 == LocalCount(variables, TypeI32)
        f32 == LocalCount(variables, TypeF32)
        f64 == LocalCount(variables, TypeF64)
    IN  IF f32 = 0 /\ f64 = 0 /\ i32 <= OpWithImm_ImmMax
        THEN <<packWithImm(VarTypeWithImm_OnlyI32, i32)>>
        ELSE <<FlagBit(i32, VarTypeI32) + FlagBit(f32, VarTypeF32)
               + FlagBit(f64, VarTypeF64)>>
             \o PresentCount(i32) \o PresentCount(f32) \o PresentCount(f64)

\* The last n items of a sequence.
Suffix(s, n) == SubSeq(s, Len(s) - n + 1, Len(s))

C13_LocalCountHeader ==
    writer.astWriter = 0 =>
        LET header == LocalHeaderWire(
                          assembly.functionDefinitions[writer.sequence + 1].variables)
        IN  /\ Len(header) <= Len(Output)
            /\ Suffix(Output, Len(header)) = header

\* The header of a definition with an I32 argument, one I32 local and two F32
\* locals has been emitted in the flags form, as the second definition.
C13_Witness ==
    /\ writer.astWriter = 0
    /\ writer.sequence = 1
    /\ assembly.functionDefinitions[2] = DefinitionFlags
    /\ Suffix(Output, 3) = <<VarTypeI32 + VarTypeF32, 1, 2>>

(***************************************************************************)
(* C14: after the varint signature count the signatures are emitted in     *)
(* pool index order, each whole or not at all: its return type in one      *)
(* byte, the varint number of its arguments, then one byte per argument    *)
(* type in argument order.                                                 *)
(***************************************************************************)
BytesBeforeSignatures(a) ==
    UInt32LE(MagicNumber) \o UInt32LE(a.precomputedSize)
    \o Varint(Len(a.constantsI32)) \o Varint(Len(a.constantsF32))
    \o Varint(Len(a.constantsF64))
    \o Concat(ConstantI32Entries(a)) \o Concat(ConstantF32Entries(a))
    \o Concat(ConstantF64Entries(a))

RECURSIVE ArgumentsWire(_)
ArgumentsWire(types) ==
    IF types = <<>> THEN <<>> ELSE <<Head(types)>> \o ArgumentsWire(Tail(types))

SignatureWire(signature) ==
    <<signature.returnType>> \o Varint(Len(signature.argumentTypes))
    \o ArgumentsWire(signature.argumentTypes)

\* The count and the first n signatures of the pool.
RECURSIVE SignaturesWire(_, _)
SignaturesWire(signatures, n) ==
    IF n = 0 THEN Varint(Len(signatures))
    ELSE SignaturesWire(signatures, n - 1) \o SignatureWire(signatures[n])

C14_SignatureEncoding ==
    LET before == BytesBeforeSignatures(assembly)
        signatures == assembly.signatures
    IN  /\ writer.state = SIGNATURES_COUNT => Output = before
        /\ writer.state = SIGNATURES =>
              /\ writer.sequence <= Len(signatures)
              /\ Output = before \o SignaturesWire(signatures, writer.sequence)
        /\ writer.state \in FUNCTION_IMPORTS_COUNT..END =>
              IsPrefix(before \o SignaturesWire(signatures, Len(signatures)), Output)

\* Suspended between the signature (I32; F64, F64) and the next one.
C14_Witness ==
    /\ writer.state = SIGNATURES
    /\ writer.exit = "E_MORE"
    /\ writer.sequence = 1
    /\ Suffix(Output, 5) = <<2, TypeI32, 2, TypeF64, TypeF64>>

(***************************************************************************)
(* C15: a function definition built with a arguments and i, f and d locals *)
(* of types I32, F32 and F64 has a table of a+i+f+d variables, and         *)
(* getVariable(k) returns the k-th argument, with the k-th type of the     *)
(* signature, for 0 <= k < a, an I32 local for a <= k < a+i, an F32 local  *)
(* for a+i <= k < a+i+f and an F64 local for a+i+f <= k < a+i+f+d; for any *)
(* other k it fails with a range error.  The table is the same after the   *)
(* call as before it.                                                      *)
(***************************************************************************)
ExpectedVariable(argumentTypes, i, f, d, k) ==
    LET a == Len(argumentTypes)
    IN  IF k < a THEN [type |-> argumentTypes[k + 1], isArgument |-> TRUE]
        ELSE IF k < a + i THEN [type |-> TypeI32, isArgument |-> FALSE]
        ELSE IF k < a + i + f THEN [type |-> TypeF32, isArgument |-> FALSE]
        ELSE [type |-> TypeF64, isArgument |-> FALSE]

C15_VariableTable ==
    call.op \in {"new", "getVariable"} =>
        LET a == Len(call.built[1])
            i == call.built[2]
            f == call.built[3]
            d == call.built[4]
            k == call.index
        IN  /\ Len(functionDefinition.variables) = a + i + f + d
            /\ call.op = "getVariable" =>
                  /\ (0 <= k /\ k < a + i + f + d) =>
                        /\ call.thrown = "none"
                        /\ call.value = ExpectedVariable(call.built[1], i, f, d, k)
                  /\ (k < 0 \/ k >= a + i + f + d) => call.thrown = "RangeError"
                  /\ functionDefinition.variables = call.before

\* The first F32 local of a definition with two arguments, one I32 local, two
\* F32 locals and one F64 local has been looked up.
C15_Witness ==
    /\ call.op = "getVariable"
    /\ call.built = <<<<TypeF64, TypeI32>>, 1, 2, 1>>
    /\ call.index = 3
    /\ call.thrown = "none"
    /\ call.value = Local(TypeF32)

(***************************************************************************)
(* C16: when optimize() has returned and at no visited node the behavior   *)
(* rewrote anything (it has no optimize operation, or it returned the same *)
(* node with the same opcode), the result is 0 and every root slot and     *)
(* every operand slot holds the node it held at the call.                  *)
(***************************************************************************)
NothingRewritten ==
    \A v \in 1..Len(call.visits) :
        /\ call.visits[v].optimizedStmt = call.visits[v].stmt
        /\ call.visits[v].optimizedCode = call.visits[v].code

C16_NothingToOptimize ==
    (call.op = "optimize" /\ call.pc = "done" /\ NothingRewritten) =>
        /\ call.result = 0
        /\ functionDefinition.ast = call.ast0
        /\ functionDefinition.heap = call.heap0

\* A tree of three nodes, two of them with an optimize operation that returns
\* its node, has been walked.
C16_Witness ==
    /\ call.op = "optimize"
    /\ call.pc = "done"
    /\ NothingRewritten
    /\ Len(call.visits) = 3
    /\ Cardinality({v \in 1..3 : call.visits[v].hasOptimize}) = 2
    /\ call.result = 0

(***************************************************************************)
(* C17: the result of optimize() is the number of visits at which the      *)
(* behavior's optimize returned another node, plus the number of visits at *)
(* which it returned the same node with another opcode than before the     *)
(* call; no visit counts twice and the visit of a node whose behavior has  *)
(* no optimize operation does not count.                                   *)
(***************************************************************************)
Changed(visit) ==
    /\ visit.hasOptimize
    /\ \/ visit.optimizedStmt # visit.stmt
       \/ visit.optimizedStmt = visit.stmt /\ visit.optimizedCode # visit.code

C17_ChangeCount ==
    (call.op = "optimize" /\ call.pc = "done") =>
        /\ call.result
              = Cardinality({v \in 1..Len(call.visits) : Changed(call.visits[v])})
        /\ \A u, v \in 1..Len(call.visits) :
              u # v => call.visits[u].stmt # call.visits[v].stmt

\* One node replaced, one node recoded in place and one node without an
\* optimize operation: the result is 2.
C17_Witness ==
    /\ call.op = "optimize"
    /\ call.pc = "done"
    /\ call.result = 2
    /\ \E u, v, w \in 1..Len(call.visits) :
          /\ call.visits[u].optimizedStmt # call.visits[u].stmt
          /\ call.visits[v].optimizedStmt = call.visits[v].stmt
          /\ call.visits[v].optimizedCode # call.visits[v].code
          /\ ~call.visits[w].hasOptimize

(***************************************************************************)
(* C18: when the optimize of the visited node returns another node, the    *)
(* replacement puts that node into every root slot and every operand slot  *)
(* that held the visited node and changes no other slot; afterwards no     *)
(* slot of the tree holds the visited node any more, except slots inside   *)
(* the subtree of the replacement itself (a replacement that has the       *)
(* visited node as one of its own operands keeps it).                      *)
(***************************************************************************)
OperandNodes(heap, n) ==
    {heap[n].operands[i] : i \in 1..Len(heap[n].operands)} \ {IMM}

RECURSIVE ReachableFrom(_, _)
ReachableFrom(heap, nodes) ==
    LET next == nodes \cup UNION {OperandNodes(heap, n) : n \in nodes}
    IN  IF next = nodes THEN nodes ELSE ReachableFrom(heap, next)

Roots(ast) == {ast[i] : i \in 1..Len(ast)}

\* The iteration just made has substituted optimizedStmt for stmt.
Substituted ==
    /\ call.op = "optimize"
    /\ call.pc = "loop"
    /\ call'.pc = "loop"
    /\ Len(call'.visits) = Len(call.visits) + 1
    /\ call'.optimizedStmt # call'.stmt

\* Every slot that held the old node holds the new one, no other slot differs.
SlotsReplaced(oldStmt, newStmt) ==
    /\ Len(functionDefinition'.ast) = Len(functionDefinition.ast)
    /\ \A i \in 1..Len(functionDefinition.ast) :
          functionDefinition'.ast[i] =
              IF functionDefinition.ast[i] = oldStmt THEN newStmt
              ELSE functionDefinition.ast[i]
    /\ \A n \in 1..Len(functionDefinition.heap) :
          /\ Len(functionDefinition'.heap[n].operands)
                = Len(functionDefinition.heap[n].operands)
          /\ \A i \in 1..Len(functionDefinition.heap[n].operands) :
                IF functionDefinition.heap[n].operands[i] = oldStmt
                THEN n \in ReachableFrom(functionDefinition.heap,
                                         Roots(functionDefinition.ast))
                        => functionDefinition'.heap[n].operands[i] = newStmt
                ELSE functionDefinition'.heap[n].operands[i]
                        = functionDefinition.heap[n].operands[i]

\* The nodes of the tree that hold oldStmt in an operand slot.
Holders(ast, heap, oldStmt) ==
    {n \in ReachableFrom(heap, Roots(ast)) : oldStmt \in OperandNodes(heap, n)}

C18_AllSlotsReplaced ==
    [][Substituted =>
          /\ SlotsReplaced(call'.stmt, call'.optimizedStmt)
          /\ call'.stmt \notin Roots(functionDefinition'.ast)
          /\ Holders(functionDefinition'.ast, functionDefinition'.heap, call'.stmt)
                \subseteq ReachableFrom(functionDefinition'.heap, {call'.optimizedStmt})
      ]_vars

\* As the claim has it: afterwards no slot of the tree holds the visited node.
C18_NoSlotHoldsOld ==
    [][Substituted =>
          /\ SlotsReplaced(call'.stmt, call'.optimizedStmt)
          /\ call'.stmt \notin Roots(functionDefinition'.ast)
          /\ Holders(functionDefinition'.ast, functionDefinition'.heap, call'.stmt) = {}
      ]_vars

\* The visited node was held twice by one node of the tree, and both slots
\* hold its replacement now.
C18_Witness ==
    /\ call.op = "optimize"
    /\ call.pc = "loop"
    /\ call.stmt # NULL
    /\ call.optimizedStmt # call.stmt
    /\ \E n \in ReachableFrom(functionDefinition.heap, Roots(functionDefinition.ast)) :
          /\ functionDefinition.heap[n].operands
                = <<call.optimizedStmt, call.optimizedStmt>>
          /\ call.heap0 # <<>>
          /\ n > Len(call.heap0)
          /\ call.optimizedStmt > n

(***************************************************************************)
(* C19: after a substitution the pass goes on into the children of the     *)
(* replacement: what the iteration pushes on the work stack are the        *)
(* operand nodes of the replacement, the first operand on top.             *)
(***************************************************************************)
C19_ContinuesIntoReplacement ==
    [][Substituted =>
          call'.stack =
              SubSeq(call.stack, 1, Len(call.stack) - 1)
              \o Reverse(StmtOperands(functionDefinition'.heap, call'.optimizedStmt))
      ]_vars

(***************************************************************************)
(* C20: validate of a Load or Store node whose number of operands is not   *)
(* 1 (Load) or 2 (Store) fails, with the error about the number of         *)
(* operands whatever operand 0 is; with the right number of operands and   *)
(* an operand 0 that is not an I32 expression it fails with the error that *)
(* names the heap index (operand 0); it leaves the node and the function   *)
(* definition as they were.                                                *)
(***************************************************************************)
RequiredOperands == IF call.behavior = "Load" THEN 1 ELSE 2

OperandCountErrors ==
    {"Load requires exactly 1 operand", "Store requires exactly 2 operands"}

HeapIndexErrors ==
    {"Load heap index (operand 0) must be an I32 expression",
     "Store heap index (operand 0) must be an I32 expression"}

ValidateFrame ==
    /\ call.stmt = call.stmt0
    /\ functionDefinition = call.definition0

C20_ValidateHeapIndex ==
    call.op = "validate" =>
        /\ Len(call.stmt.operands) # RequiredOperands =>
              call.thrown \in OperandCountErrors
        /\ (Len(call.stmt.operands) = RequiredOperands
            /\ ~IsExprI32(call.stmt.operands[1])) =>
              call.thrown \in HeapIndexErrors
        /\ ValidateFrame

\* As the claim has it: whenever operand 0 is not an I32 expression the error
\* names the heap index, whatever the number of operands.
C20_HeapIndexNamedAlways ==
    call.op = "validate" =>
        /\ Len(call.stmt.operands) # RequiredOperands => call.thrown # "none"
        /\ (Len(call.stmt.operands) >= 1 /\ ~IsExprI32(call.stmt.operands[1])) =>
              call.thrown \in HeapIndexErrors
        /\ ValidateFrame

\* A Store node with an F64 expression as heap index and a statement as value
\* has been refused for its heap index.
C20_Witness ==
    /\ call.op = "validate"
    /\ call.behavior = "Store"
    /\ call.stmt.operands = <<Expr(TypeF64), PlainStmt>>
    /\ call.thrown = "Store heap index (operand 0) must be an I32 expression"

(***************************************************************************)
(* C21: validate of a Store node succeeds exactly when the node has two    *)
(* operands, operand 0 is an I32 expression and operand 1 is an expression *)
(* whose result type is the heap type of the behavior; when the result     *)
(* type of the value is all that is wrong, the error names the heap type   *)
(* that was expected.                                                      *)
(***************************************************************************)
StoreAccepts(heapType, operands) ==
    /\ Len(operands) = 2
    /\ operands[1].class = "ExprI32"
    /\ operands[2].class \in {"ExprI32", "ExprF32", "ExprF64"}
    /\ operands[2].type = heapType

OnlyTypeMismatch(heapType, operands) ==
    /\ Len(operands) = 2
    /\ operands[1].class = "ExprI32"
    /\ operands[2].class \in {"ExprI32", "ExprF32", "ExprF64"}
    /\ operands[2].type # heapType

ErrorsNaming(type) ==
    IF type = TypeI32 THEN {"Store value (operand 1) expression must be I32"}
    ELSE IF type = TypeF32 THEN {"Store value (operand 1) expression must be F32"}
    ELSE {"Store value (operand 1) expression must be F64"}

C21_StoreValidate ==
    (call.op = "validate" /\ call.behavior = "Store") =>
        /\ call.thrown = "none" <=> StoreAccepts(call.heapType, call.stmt.operands)
        /\ OnlyTypeMismatch(call.heapType, call.stmt.operands) =>
              call.thrown \in ErrorsNaming(call.heapType)

\* A Store to an F32 heap whose value is an F64 expression has been refused.
C21_Witness ==
    /\ call.op = "validate"
    /\ call.behavior = "Store"
    /\ call.heapType = TypeF32
    /\ call.stmt.operands = <<Expr(TypeI32), Expr(TypeF64)>>
    /\ call.thrown = "Store value (operand 1) expression must be F32"

(***************************************************************************)
(* C22: writing a Load node asks for its opcode and then its heap index    *)
(* (operand 0), writing a Store node for its opcode, its heap index        *)
(* (operand 0) and its value (operand 1): for a node with the operands of  *)
(* its behavior that is every operand once, in the declared order, after   *)
(* the opcode.  Reading the opcode back asks for as many operands, in the  *)
(* same order: an I32 expression, and for Store then an expression of the  *)
(* heap type.                                                              *)
(***************************************************************************)
\* The opcode, then the operands in their order.
RECURSIVE OperandWrites(_)
OperandWrites(operands) ==
    IF operands = <<>> THEN <<>>
    ELSE << <<"write", Head(operands)>> >> \o OperandWrites(Tail(operands))

ExpectedReads(behavior, heapType) ==
    IF behavior = "Load" THEN <<TypeI32>> ELSE <<TypeI32, heapType>>

C22_OperandOrder ==
    /\ (call.op = "write" /\ Len(call.stmt.operands) = RequiredOperands) =>
          call.calls = << <<"code", call.stmt.code>> >> \o OperandWrites(call.stmt.operands)
    /\ (call.op = "write" /\ Len(call.stmt.operands) >= RequiredOperands) =>
          /\ Len(call.calls) = 1 + RequiredOperands
          /\ call.calls[1] = <<"code", call.stmt.code>>
          /\ \A i \in 1..RequiredOperands :
                call.calls[i + 1] = <<"write", call.stmt.operands[i]>>
    /\ call.op = "read" =>
          /\ Len(call.calls) = 1 + RequiredOperands
          /\ call.calls[1] = <<"stmt", call.stmt.code>>
          /\ \A i \in 1..RequiredOperands :
                call.calls[i + 1]
                    = <<"read", ExpectedReads(call.behavior, call.heapType)[i]>>
          /\ (call.behavior = "Store"
              /\ StoreAccepts(call.heapType, call.stmt.operands)) =>
                \A i \in 1..2 : call.calls[i + 1][2] = call.stmt.operands[i].type

\* A Store node with an I32 heap index and an F64 value has been written.
C22_Witness ==
    /\ call.op = "write"
    /\ call.behavior = "Store"
    /\ call.stmt.operands = <<Expr(TypeI32), Expr(TypeF64)>>
    /\ call.calls = << <<"code", 20>>, <<"write", Expr(TypeI32)>>,
                       <<"write", Expr(TypeF64)>> >>

(***************************************************************************)
(* C23: decoding the bytes written for a well-formed assembly gives the    *)
(* assembly back.  A decoder is a function of the bytes alone, so the      *)
(* bytes delivered for a well-formed assembly must be the bytes of no      *)
(* other well-formed assembly: whenever the stream of one has ended, every *)
(* well-formed assembly with the same encoding is that assembly.           *)
(***************************************************************************)
\* Well-formed as the data model has it: nothing the writer fails on, and
\* the global variables in their six groups.
WellFormedGraph(a) == WellFormed(a) /\ Grouped(a.globalVariables)

C23_RoundTrip ==
    (writer.state = END /\ writer.ended > 0 /\ WellFormedGraph(assembly)) =>
        \A other \in Assemblies :
            (WellFormedGraph(other) /\ Encoding(other) = writer.pushed) =>
                other = assembly

(***************************************************************************)
(* Teardown.  Writer.js defines no teardown of its own: the writer is a    *)
(* stream.Readable, and being torn down touches none of the writer's own   *)
(* fields and none of the listeners it attached to a Body Writer.  The     *)
(* call records that the teardown happened and how many bytes had been     *)
(* handed to push by then.                                                 *)
(***************************************************************************)
Teardown ==
    /\ call = NoCall
    /\ call' = [op |-> "teardown", pushed |-> Len(writer.pushed),
                active |-> writer.astWriter # NULL]
    /\ UNCHANGED <<assembly, writer, functionDefinition>>

TeardownInit ==
    /\ assembly \in AssembliesByDefinitions
    /\ writer = NewWriter
    /\ functionDefinition = NoDefinition
    /\ call = NoCall

TeardownNext == Read \/ Immediate \/ AstRead \/ OnError \/ Teardown

TeardownSpec == TeardownInit /\ [][TeardownNext]_vars

(***************************************************************************)
(* C24: once the writer has been torn down, no Body Writer is left with    *)
(* the writer's listeners attached, and the writer hands no further bytes  *)
(* to the stream, whatever signals arrive afterwards.                      *)
(***************************************************************************)
C24_Teardown ==
    call.op = "teardown" =>
        /\ writer.astWriter = NULL
        /\ writer.astListeners = {}
        /\ Len(writer.pushed) = call.pushed

(***************************************************************************)
(* C25: the function definitions are handed to Body Writers one at a time, *)
(* each exactly once and in index order.  A Body Writer is created only    *)
(* when none is active, for the index that is next, with everything before *)
(* that definition and its header committed; a header commit that finds no *)
(* room creates none and leaves the header out; an active Body Writer only *)
(* adds its own nodes and keeps the three listeners it was given; when it  *)
(* completes its listeners are removed, its reference is cleared, the      *)
(* index advances by exactly one and the whole definition has been         *)
(* emitted; listeners are attached to an active Body Writer only; and the  *)
(* section is left only with every definition done.                        *)
(***************************************************************************)
C25_OneBodyWriter ==
    [][LET n == Len(assembly.functionDefinitions)
           k == writer'.sequence
           created == writer.astWriter = NULL /\ writer'.astWriter # NULL
           completed == /\ writer.astWriter # NULL
                        /\ writer'.astWriter = NULL
                        /\ writer'.state # ERROR
           outputAfter == writer'.pushed \o writer'.bufferQueue.committed
       IN  /\ (writer'.astWriter = NULL) => (writer'.astListeners = {})
           /\ created =>
                 /\ writer'.astWriter = 0
                 /\ writer'.astListeners = AstWriterListeners
                 /\ writer'.state = FUNCTION_DEFINITIONS
                 /\ k < n
                 /\ k = (IF writer.state = FUNCTION_DEFINITIONS
                         THEN writer.sequence ELSE 0)
                 /\ outputAfter =
                        BytesBeforeDefinition(assembly, k)
                        \o LocalHeaderWire(assembly.functionDefinitions[k + 1].variables)
           /\ (/\ writer.astWriter = NULL
               /\ writer' # writer
               /\ writer'.exit = "E_MORE"
               /\ writer'.moreAt = FUNCTION_DEFINITIONS) =>
                 /\ writer'.astWriter = NULL
                 /\ k < n
                 /\ outputAfter = BytesBeforeDefinition(assembly, k)
           /\ (writer.astWriter # NULL /\ writer'.astWriter # NULL) =>
                 /\ k = writer.sequence
                 /\ writer'.state = FUNCTION_DEFINITIONS
                 /\ writer'.astListeners = AstWriterListeners
                 /\ writer'.astWriter >= writer.astWriter
                 /\ Len(outputAfter) - Len(Output) =
                        writer'.astWriter - writer.astWriter
           /\ completed =>
                 /\ writer.astListeners = AstWriterListeners
                 /\ writer'.astListeners = {}
                 /\ k = writer.sequence + 1
                 /\ k <= n
                 /\ writer'.state = FUNCTION_DEFINITIONS
                 /\ outputAfter = BytesBeforeDefinition(assembly, k)
           /\ (/\ writer.state \notin {EXPORT, END}
               /\ writer'.state \in {EXPORT, END}) =>
                 /\ writer.astWriter = NULL
                 /\ IF writer.state = FUNCTION_DEFINITIONS
                    THEN writer.sequence = n
                    ELSE n = 0
      ]_vars

\* The Body Writer of the second of two definitions has completed: both
\* definitions are out, in order, the index stands behind the last and no
\* listener is left.
C25_Witness ==
    /\ Len(assembly.functionDefinitions) = 2
    /\ assembly.functionDefinitions[1] = DefinitionPlain
    /\ assembly.functionDefinitions[2] = DefinitionFlags
    /\ writer.state = FUNCTION_DEFINITIONS
    /\ writer.astWriter = NULL
    /\ writer.astListeners = {}
    /\ writer.sequence = 2
    /\ Output = BytesBeforeDefinition(assembly, 2)

(***************************************************************************)
(* C26: the entry index stays within the pool of the section being         *)
(* written, the table and element indices within the tables; and a section *)
(* is entered with its index at 0, GLOBAL_VARIABLES with its index at the  *)
(* first entry after the zero-initialized variables.                       *)
(***************************************************************************)
\* The sections written entry by entry, and the size of the pool of each.
EntrySections ==
    {CONSTANTS_I32, CONSTANTS_F32, CONSTANTS_F64, SIGNATURES, FUNCTION_IMPORTS,
     GLOBAL_VARIABLES, FUNCTION_DECLARATIONS, FUNCTION_POINTER_TABLES,
     FUNCTION_DEFINITIONS}

PoolSize(a, state) ==
    CASE state = CONSTANTS_I32 -> Len(a.constantsI32)
      [] state = CONSTANTS_F32 -> Len(a.constantsF32)
      [] state = CONSTANTS_F64 -> Len(a.constantsF64)
      [] state = SIGNATURES -> Len(a.signatures)
      [] state = FUNCTION_IMPORTS -> Len(a.functionImports)
      [] state = GLOBAL_VARIABLES -> Len(a.globalVariables)
      [] state = FUNCTION_DECLARATIONS -> Len(a.functionDeclarations)
      [] state = FUNCTION_POINTER_TABLES -> Len(a.functionPointerTables)
      [] state = FUNCTION_DEFINITIONS -> Len(a.functionDeclarations)

\* The index a section starts at: the number of zero-initialized variables
\* for GLOBAL_VARIABLES, 0 for every other section.
SectionStart(a, state) ==
    IF state = GLOBAL_VARIABLES
    THEN CountGroup(a.globalVariables, 0) + CountGroup(a.globalVariables, 1)
         + CountGroup(a.globalVariables, 2)
    ELSE 0

IndexInRange(a, w) ==
    /\ w.state \in EntrySections => w.sequence \in 0..PoolSize(a, w.state)
    /\ w.state = FUNCTION_POINTER_ELEMENTS =>
          /\ w.sequence \in 0..(Len(a.functionPointerTables) - 1)
          /\ w.subSequence \in
                0..Len(a.functionPointerTables[w.sequence + 1].elements)

\* The step of the state the writer is in, run with room for all it writes,
\* has entered another section.
Entered(a, w, r) ==
    /\ r.thrown = "none"
    /\ r.w.state # w.state
    /\ ~(w.state = FUNCTION_POINTER_ELEMENTS /\ r.w.state = FUNCTION_POINTER_TABLES)

StartsAtSectionStart(a, w) ==
    LET r == Step(a, [w EXCEPT !.bufferQueue = BQpush(@, BigRead)])
    IN  Entered(a, w, r) =>
            /\ r.w.state \in EntrySections =>
                    r.w.sequence = SectionStart(a, r.w.state)
            /\ r.w.state = FUNCTION_POINTER_ELEMENTS => r.w.subSequence = 0

C26_IndexRanges ==
    /\ IndexInRange(assembly, writer)
    /\ (/\ writer.astWriter = NULL
        /\ writer.state \notin {END, ERROR}
        /\ Grouped(assembly.globalVariables)) =>
            StartsAtSectionStart(assembly, writer)

(***************************************************************************)
(* C27: the end of the stream is signaled at most once, and once the       *)
(* writer has processed END or ERROR (pushed what was left and signaled    *)
(* the end) no step delivers another byte, signals the end again or        *)
(* changes the state, whatever signals arrive.                             *)
(***************************************************************************)
C27_EndOnce ==
    [][/\ writer'.ended <= 1
       /\ writer.ended > 0 =>
             /\ writer.state \in {END, ERROR}
             /\ writer'.state = writer.state
             /\ writer'.pushed = writer.pushed
             /\ writer'.ended = writer.ended
             /\ writer'.bufferQueue.committed = <<>>
             /\ writer'.astWriter = NULL
      ]_vars

\* The end has been signaled and an availability signal has arrived since:
\* the queue holds the room it brought.
C27_Witness ==
    /\ writer.ended = 1
    /\ writer.state = END
    /\ writer.bufferQueue.room > 0
    /\ writer.pushed = Encoding(assembly)

====
